---------------------------- MODULE Spec2Model ----------------------------
(*
  A model of the Blender ANIM importer/exporter (io-scene-ANIM).

  The module holds several state machines, one per component of the add-on,
  over one set of variables; each has its own initial predicate, next-state
  relation and specification:

    SpecKeys      the key-line writer (anim_keys_elements) and the key-line
                  reader (read_prop_keyframe / get_keys_elements)
    SpecHeader    the header writer (anim_header_elements) and the header
                  reader (get_header_elements / setupScene)
    SpecComplete  channel completion (complete_animFCgroup / prep_node)
    SpecSpace     the translation branch of the two offset_transforms
    SpecDoc       the armature export loop of anim_fcurve_elements with its
                  `anim` declarations, and the document reader (load)
    SpecChannel   setup_fcurve and write_keyframes of the importer
    SpecAnimData  the animData block of the exporter
    SpecLoad      the reader loop of load (FairLoad for its termination)
    SpecNodes     write_animation binding nodes to objects and bones
    SpecPass      the frame passes of prep_node and write_animation
    SpecUnits     scene unit changes, module loads and exports
    SpecRange     the export operator's start_time and end_time

  Text is modelled as sequences of tokens. A token is a record
  [k, s, n]: k = "w" a word with text s, k = "i" an integer literal n,
  k = "f" a decimal literal with value n * 10^-6, k = "a" the dotted
  attribute word "<s>.<s><c>" and k = "b" the word "<s><c>", c the character
  with code n.
  Host floats of key times, values and handles are integers counting 10^-7,
  so that the writer's rounding to 6 decimals is a real operation.
*)
EXTENDS Integers, Sequences, FiniteSets, TLC

VARIABLES
    \* ---- key lines (SpecKeys)
    k_pc,           \* "idle" | "write" | "read"
    k_set,          \* export settings: use_time_range, start_time, end_time, dt_output, units
    kp,             \* the keyframe point the line under the cursor was written for
    prev_interp,    \* anim_keys_elements: prev_interp
    tan_lock,       \* anim_keys_elements: tan_lock (a local outside the loop)
    in_tan,         \* anim_keys_elements: in_tan
    out_tan,        \* anim_keys_elements: out_tan
    nkeys,          \* keyframe points visited so far
    keyLine,        \* the line under the reader's cursor, as tokens
    lineSrc,        \* who wrote keyLine: "none" | "export" | "foreign"
    anim_key,       \* get_keys_elements: the ANIM_Keyframe built from keyLine
    \* ---- header (SpecHeader)
    h_pc,           \* "idle" | "write" | "read" | "done" | "KeyError" | "ValueError"
    scene,          \* the exporting scene: fps, units, frame range
    h_op,           \* export operator options: use_time_range, start_time, end_time
    h_kwargs,       \* anim_header_elements: kwargs_mod and the range written
    h_lines,        \* header lines written, not yet read
    h_props,        \* get_header_elements: props
    h_imp,          \* import operator options: use_fps, use_units, use_timerange
    h_scene,        \* the importing scene, set by setupScene
    \* ---- channel completion (SpecComplete)
    c_pc,           \* "idle" | "start" | "completed" | "again"
    c_side,         \* "import" | "export"
    c_prop,         \* the property group's id: 0 location, 1 rotation_euler, 2 rotation_quaternion
    c_group,        \* the channels present, in the order they were found
    c_first,        \* list(frames)[0]
    c_result,       \* the group after completion
    c_again,        \* complete_animFCgroup applied to c_result
    \* ---- space conversion of a location group (SpecSpace)
    sp_pc,          \* "idle" | "export" | "import" | "done"
    sp_set,         \* the parent matrix, the node kind and global scale of each side
    sp_vals,        \* the location values of the group, one vector per frame
    sp_out,         \* the values after export's offset_transforms, per frame
    sp_back,        \* the values after import's offset_transforms, per frame
    \* ---- anim declarations of a document (SpecDoc)
    d_pc,           \* "idle" | "object" | "bones" | "load" | "write" | "done" | "AttributeError"
    d_arm,          \* the exported armature, its action and the export options
    boneCheckList,  \* anim_fcurve_elements: boneCheckList after the cull
    d_bone,         \* bones of boneCheckList written so far
    d_lines,        \* the document: anim lines (tokens) and animData blocks
    d_src,          \* for each line, what the writer wrote it for
    d_read,         \* lines the loader has gone through
    node,           \* load: node
    nodeNames,      \* load: nodeNames
    anim_nodes,     \* load: anim_nodes
    \* ---- import of one channel (SpecChannel)
    ch_pc,          \* "idle", "setup", "write", "keys", "done", "KeyError", "AttributeError"
    anim_fc,        \* the ANIM_FCurve read: node, settings and keys
    ch_set,         \* import settings: linearUnit, angularUnit, apply_unit_linear, axis_transform
    ch_fc,          \* the host curve (fc): extrapolation, modifiers, keyframe_points
    ch_i,           \* write_keyframes: keys handled so far
    \* ---- one animData block written (SpecAnimData)
    ad_pc,          \* "idle", "write", "written"
    ad_fc,          \* the curve: extrapolation, modifiers, keyframe_points
    ad_set,         \* fc_path and the export settings
    ad_lines,       \* the lines of the block as written
    \* ---- the loader's line loops (SpecLoad)
    l_pc,           \* "idle", "header", "body", "animData", "keys", "done", or the exception raised
    l_file,         \* the lines of the document body
    l_pos,          \* lines read from the stream so far
    l_fline,        \* fline: the line the block readers hold; empty once the stream is at its end
    l_node,         \* load: node
    l_nodeNames,    \* load: nodeNames
    l_anim_nodes,   \* load: anim_nodes
    l_props,        \* get_animData_elements: props
    fc_keys,        \* get_animData_elements: fc_keys, once bound
    \* ---- write_animation's loop over the nodes read (SpecNodes)
    w_pc,           \* "idle", "nodes", "done", "AttributeError"
    w_obj,          \* the target object: name, type, pose bones, selected bones, use_selected_bones
    w_nodes,        \* anim_nodes: the name of each node group and the keys of its channel
    w_i,            \* nodes gone through
    doObj,          \* write_animation: doObj
    w_curves,       \* action.fcurves: the node and the group of each curve created
    \* ---- the conversion pass over one property group (SpecPass)
    p_pc,           \* "idle", "gather", "convert", "done", "AttributeError"
    p_set,          \* the side, the property, the parent-space transform and the linear unit
    p_orig,         \* the channels of the group as the pass found them
    p_group,        \* fc_group / anim_fcgroup: the channels with their keys
    p_frames,       \* list(frames): the frames in the order the loops take them
    p_vals,         \* keys_array_list / anim_framgroup_vals: one input vector per frame
    p_keys,         \* anim_framegroup_keys: for each frame the key object of each channel
    p_eulRef,       \* eulRef
    p_log,          \* for each frame converted: the frame, the reference used, the vector produced
    \* ---- scene unit changes and exports (SpecUnits)
    u_pc,           \* "idle", "ok", "KeyError": how the last operator run or reload ended
    u_scene,        \* scene.unit_settings: length_unit and system_rotation
    u_conv,         \* the units anim_utils.linear_converter and angular_converter were built from; empty while anim_utils is not loaded
    u_exports,      \* for each export: the header units and the tokens written for a linear key, an angular key and a tangent
    \* ---- the export operator's time range (SpecRange)
    r_pc,           \* "idle", "ok", "ValueError": how the last edit ended
    r_op,           \* the operator properties use_time_range, start_time, end_time
    r_scene,        \* scene.frame_start and scene.frame_end
    r_header        \* use_time_range, startTime and endTime of the last header written

keysVars   == <<k_pc, k_set, kp, prev_interp, tan_lock, in_tan, out_tan, nkeys,
               keyLine, lineSrc, anim_key>>
headerVars == <<h_pc, scene, h_op, h_kwargs, h_lines, h_props, h_imp, h_scene>>
completeVars == <<c_pc, c_side, c_prop, c_group, c_first, c_result, c_again>>
spaceVars  == <<sp_pc, sp_set, sp_vals, sp_out, sp_back>>
docVars    == <<d_pc, d_arm, boneCheckList, d_bone, d_lines, d_src, d_read,
               node, nodeNames, anim_nodes>>
channelVars == <<ch_pc, anim_fc, ch_set, ch_fc, ch_i>>
animDataVars == <<ad_pc, ad_fc, ad_set, ad_lines>>
loadVars == <<l_pc, l_file, l_pos, l_fline, l_node, l_nodeNames,
              l_anim_nodes, l_props, fc_keys>>
nodesVars == <<w_pc, w_obj, w_nodes, w_i, doObj, w_curves>>
passVars == <<p_pc, p_set, p_orig, p_group, p_frames, p_vals, p_keys,
              p_eulRef, p_log>>
unitsVars == <<u_pc, u_scene, u_conv, u_exports>>
rangeVars == <<r_pc, r_op, r_scene, r_header>>
vars       == <<keysVars, headerVars, completeVars, spaceVars, docVars,
               channelVars, animDataVars, loadVars, nodesVars, passVars,
               unitsVars, rangeVars>>

\* what the actions of one component leave alone
notKeys     == <<headerVars, completeVars, spaceVars, docVars, channelVars,
                 animDataVars, loadVars, nodesVars, passVars, unitsVars,
                 rangeVars>>
notHeader   == <<keysVars, completeVars, spaceVars, docVars, channelVars,
                 animDataVars, loadVars, nodesVars, passVars, unitsVars,
                 rangeVars>>
notComplete == <<keysVars, headerVars, spaceVars, docVars, channelVars,
                 animDataVars, loadVars, nodesVars, passVars, unitsVars,
                 rangeVars>>
notSpace    == <<keysVars, headerVars, completeVars, docVars, channelVars,
                 animDataVars, loadVars, nodesVars, passVars, unitsVars,
                 rangeVars>>
notDoc      == <<keysVars, headerVars, completeVars, spaceVars, channelVars,
                 animDataVars, loadVars, nodesVars, passVars, unitsVars,
                 rangeVars>>
notChannel  == <<keysVars, headerVars, completeVars, spaceVars, docVars,
                 animDataVars, loadVars, nodesVars, passVars, unitsVars,
                 rangeVars>>
notAnimData == <<keysVars, headerVars, completeVars, spaceVars, docVars,
                 channelVars, loadVars, nodesVars, passVars, unitsVars,
                 rangeVars>>
notLoad     == <<keysVars, headerVars, completeVars, spaceVars, docVars,
                 channelVars, animDataVars, nodesVars, passVars, unitsVars,
                 rangeVars>>
notNodes    == <<keysVars, headerVars, completeVars, spaceVars, docVars,
                 channelVars, animDataVars, loadVars, passVars, unitsVars,
                 rangeVars>>
notPass     == <<keysVars, headerVars, completeVars, spaceVars, docVars,
                 channelVars, animDataVars, loadVars, nodesVars, unitsVars,
                 rangeVars>>
notUnits    == <<keysVars, headerVars, completeVars, spaceVars, docVars,
                 channelVars, animDataVars, loadVars, nodesVars, passVars,
                 rangeVars>>
notRange    == <<keysVars, headerVars, completeVars, spaceVars, docVars,
                 channelVars, animDataVars, loadVars, nodesVars, passVars,
                 unitsVars>>

-----------------------------------------------------------------------------
(* Bounds of the model *)

\* keyframe points visited by one run of the key writer
MaxKeys == 2

-----------------------------------------------------------------------------
(* Tokens and Python values *)

\* decimal places of the writer's number format, as a factor
Micro == 1000000

W(s) == [k |-> "w", s |-> s, n |-> 0]
I(n) == [k |-> "i", s |-> "", n |-> n]
F(n) == [k |-> "f", s |-> "", n |-> n]

\* Python values the readers produce: a float (micro units), NaN, an int,
\* a str, or None
PyFloat(n) == [t |-> "float", n |-> n, s |-> ""]
PyNaN      == [t |-> "nan",   n |-> 0, s |-> ""]
PyInt(n)   == [t |-> "int",   n |-> n, s |-> ""]
PyStr(s)   == [t |-> "str",   n |-> 0, s |-> s]
PyNone     == [t |-> "none",  n |-> 0, s |-> ""]

\* the nearest integer to a / b (b > 0), ties to the even one
RoundDiv(a, b) ==
    LET q == a \div b
        r == a % b
    IN  IF 2 * r < b THEN q
        ELSE IF 2 * r > b THEN q + 1
        ELSE IF q % 2 = 0 THEN q ELSE q + 1

\* round(x, 6) and "{:.6f}" of a host float given in units of 10^-7
Round6(x) == RoundDiv(x, 10)

Abs(x) == IF x < 0 THEN -x ELSE x

\* parse_anim.getFloat
getFloat(tok) ==
    IF tok.k = "f" THEN PyFloat(tok.n)
    ELSE IF tok.k = "i" THEN PyFloat(tok.n * Micro)
    ELSE PyNaN

\* parse_anim.getInt: int() of a decimal literal or of a word raises ValueError
getInt(tok) ==
    IF tok.k = "i" THEN PyInt(tok.n) ELSE PyNone

\* Python's bool() of what getInt returns
PyBool(v) == v.t = "int" /\ v.n # 0

\* the value a reader keeps for a token it does not convert (a str)
Raw(tok) ==
    IF tok.k = "w" THEN PyStr(tok.s) ELSE PyStr("<number>")

\* parse_anim.cleanLine: the tokens before the first ";"
cleanLine(line) ==
    LET semis == {i \in 1..Len(line) : line[i] = W(";")}
    IN  IF semis = {} THEN line
        ELSE SubSeq(line, 1, (CHOOSE i \in semis : \A j \in semis : i <= j) - 1)

-----------------------------------------------------------------------------
(* Units (anim_utils) *)

\* anim_utils.UNITS, each factor as a fraction <<numerator, denominator>>;
\* 2*pi is taken as 6283/1000
UNITS(u) ==
    CASE u = "METERS"      -> <<1, 1>>
      [] u = "KILOMETERS"  -> <<1, 1000>>
      [] u = "MILLIMETERS" -> <<1000, 1>>
      [] u = "CENTIMETERS" -> <<100, 1>>
      [] u = "FEET"        -> <<10000, 3048>>
      [] u = "INCHES"      -> <<10000, 254>>
      [] u = "turn"        -> <<1, 1>>
      [] u = "DEGREES"     -> <<360, 1>>
      [] u = "RADIANS"     -> <<6283, 1000>>
      [] u = "SECONDS"     -> <<1, 1>>

UnitNames ==
    {"METERS", "KILOMETERS", "MILLIMETERS", "CENTIMETERS", "FEET", "INCHES",
     "turn", "DEGREES", "RADIANS", "SECONDS"}

\* anim_utils.units_convertor: the factor UNITS[u_to] / UNITS[u_from] of the
\* returned lambda, as a fraction
units_convertor(u_from, u_to) ==
    <<UNITS(u_to)[1] * UNITS(u_from)[2], UNITS(u_to)[2] * UNITS(u_from)[1]>>

\* anim_utils.ANIM_TANGENT_TYPE
ANIM_TANGENT_TYPE(h) ==
    CASE h = "AUTO_CLAMPED" -> "auto"
      [] h = "AUTO"         -> "spline"
      [] h = "VECTOR"       -> "linear"
      [] h = "ALIGNED"      -> "fixed"
      [] h = "FREE"         -> "fixed"
      [] h = "BEZIER"       -> "spline"
      [] h = "LINEAR"       -> "linear"
      [] h = "CONSTANT"     -> "step"

HandleTypes   == {"AUTO_CLAMPED", "AUTO", "VECTOR", "ALIGNED", "FREE"}
Interpolation == {"BEZIER", "LINEAR", "CONSTANT"}
TangentKinds  == {"auto", "spline", "linear", "fixed", "step"}

-----------------------------------------------------------------------------
(* Key lines: export_anim.anim_keys_elements, parse_anim.read_prop_keyframe,
   import_anim.get_keys_elements *)

\* 1.0 as a host float (units of 10^-7)
One == 10 * Micro

\* the key times, values and handle offsets (key minus handle) the model draws
KeyCos       == {<<14, -15>>, <<One, 250>>, <<3 * One, -15>>}
LeftOffsets  == {<<One, 0>>, <<One, One>>, <<One, 1000>>}
RightOffsets == {<<-One, One>>, <<0, -One>>}

KeyframePoints ==
    [co : KeyCos,
     interpolation : Interpolation,
     handle_left_type : HandleTypes,
     handle_right_type : HandleTypes,
     dl : LeftOffsets,
     dr : RightOffsets]

handle_left(p)  == <<p.co[1] - p.dl[1], p.co[2] - p.dl[2]>>
handle_right(p) == <<p.co[1] - p.dr[1], p.co[2] - p.dr[2]>>

NoPoint ==
    [co |-> <<0, 0>>, interpolation |-> "BEZIER", handle_left_type |-> "AUTO",
     handle_right_type |-> "AUTO", dl |-> <<One, 0>>, dr |-> <<-One, One>>]

\* the export settings of a run: the time range, the curve's unit type and the
\* scene units the two module-level converters were built from
KeySettings ==
    [use_time_range : BOOLEAN,
     start_time : {0}, end_time : {2},
     dt_output : {"unitless"},
     length_unit : {"METERS"}, system_rotation : {"DEGREES", "RADIANS"}]
    \cup
    [use_time_range : {FALSE},
     start_time : {0}, end_time : {2},
     dt_output : {"linear", "angular"},
     length_unit : {"CENTIMETERS"}, system_rotation : {"DEGREES"}]

\* anim_utils.linear_converter / angular_converter, as fractions
linear_converter(set)  == units_convertor("METERS", set.length_unit)
angular_converter(set) == units_convertor("RADIANS", set.system_rotation)

\* math.atan of the slope y/x, passed through angular_converter and rounded
\* to 6 decimals, for the slopes the model draws (0, 1, -1 and 0.0001), in
\* micro units
AtanConverted(set, x, y) ==
    LET quarter == IF set.system_rotation = "DEGREES" THEN 45 * Micro ELSE 785398
        small   == IF set.system_rotation = "DEGREES" THEN 5730 ELSE 100
    IN  CASE y = 0  -> 0
          [] y = x  -> quarter
          [] y = -x -> -quarter
          [] y * 10000 = x -> small

\* math.hypot(x, y) rounded to 6 decimals, for the offsets the model draws
HypotRounded(x, y) ==
    CASE x = 0 -> Round6(Abs(y))
      [] y = 0 -> Round6(Abs(x))
      [] Abs(x) = One /\ Abs(y) = One -> 1414214
      [] Abs(x) = One /\ Abs(y) = 1000 -> Micro

\* anim_keys_elements.tangent_calc: the two tokens written for a fixed tangent.
\* An angle within 0.001 of zero becomes the int 0 and is written "0";
\* copysign(90, y) is the float 90.0.
tangent_calc(set, p, handle) ==
    LET x == p.co[1] - handle[1]
        y == p.co[2] - handle[2]
        angle == IF x # 0 THEN AtanConverted(set, x, y)
                 ELSE IF y < 0 THEN -90 * Micro ELSE 90 * Micro
        clamped == x # 0 /\ angle < 1000 /\ angle > -1000
    IN  << IF clamped THEN I(0) ELSE F(angle), F(HypotRounded(x, y)) >>

\* the in- and out-tangent kind of a key (lines 161-169)
KeyOutTan(p) ==
    IF p.interpolation # "BEZIER" THEN ANIM_TANGENT_TYPE(p.interpolation)
    ELSE ANIM_TANGENT_TYPE(p.handle_right_type)

KeyInTan(p, prev) ==
    IF prev # "BEZIER" /\ prev # "None" THEN ANIM_TANGENT_TYPE(p.interpolation)
    ELSE ANIM_TANGENT_TYPE(p.handle_left_type)

\* tan_lock after this key (lines 171-172): only ever lowered
KeyTanLock(p, lock) ==
    IF p.handle_left_type = "FREE" \/ p.handle_right_type = "FREE" THEN 0 ELSE lock

\* the value token (lines 151-159)
KeyValueToken(set, p) ==
    LET conv == CASE set.dt_output = "linear"  -> linear_converter(set)
                  [] set.dt_output = "angular" -> angular_converter(set)
                  [] OTHER -> <<1, 1>>
    IN  F(RoundDiv(p.co[2] * conv[1], conv[2] * 10))

\* the pairs written after the flags: the in-pair, then the out-pair
KeyTangentPairs(set, p, tin, tout) ==
    (IF tin = "fixed" THEN tangent_calc(set, p, handle_left(p)) ELSE <<>>)
    \o (IF tout = "fixed" THEN tangent_calc(set, p, handle_right(p)) ELSE <<>>)

\* one key line as anim_keys_elements writes it (lines 150-185)
KeyLineOf(set, p, prev, lock) ==
    LET tin  == KeyInTan(p, prev)
        tout == KeyOutTan(p)
    IN  << F(Round6(p.co[1])), KeyValueToken(set, p), W(tin), W(tout),
           I(KeyTanLock(p, lock)), I(0), I(0) >>
        \o KeyTangentPairs(set, p, tin, tout)
        \o << W(";") >>

InTimeRange(set, p) ==
    ~set.use_time_range
    \/ (p.co[1] >= set.start_time * One /\ p.co[1] <= set.end_time * One)

\* read_prop_keyframe with the boolean range one short (4-5 instead of 4-6)
read_prop_keyframe_short(line) ==
    LET props == cleanLine(line)
    IN  [i \in 1..Len(props) |->
            IF i <= 2 \/ i >= 8 THEN getFloat(props[i])
            ELSE IF i >= 5 /\ i <= 6
                 THEN [t |-> "bool", n |-> IF PyBool(getInt(props[i])) THEN 1 ELSE 0, s |-> ""]
                 ELSE Raw(props[i])]

\* parse_anim.read_prop_keyframe: tokens 0-1 and 7.. as floats, 4-6 as
\* booleans, 2-3 kept as they are (positions here are 1-based)
read_prop_keyframe(line) ==
    LET props == cleanLine(line)
    IN  [i \in 1..Len(props) |->
            IF i <= 2 \/ i >= 8 THEN getFloat(props[i])
            ELSE IF i >= 5 /\ i <= 7
                 THEN [t |-> "bool", n |-> IF PyBool(getInt(props[i])) THEN 1 ELSE 0, s |-> ""]
                 ELSE Raw(props[i])]

\* outAngle_pos that ignores the in-tangent
outAngle_pos_first(key) == 7

\* the position (0-based, as in the source) of the out-tangent's angle
outAngle_pos(key) == IF key[3] = PyStr("fixed") THEN 9 ELSE 7

\* whether a list index of the source (0-based) exists
HasIndex(list, i) == i + 1 <= Len(list)

NoKey ==
    [ok |-> "none", time |-> PyNone, value |-> PyNone, tan_in |-> PyNone,
     tan_out |-> PyNone, islocked_tangent |-> FALSE, islocked_weight |-> FALSE,
     isbreakdown |-> FALSE, tan_in_angle |-> PyNone, tan_in_weight |-> PyNone,
     tan_out_angle |-> PyNone, tan_out_weight |-> PyNone]

\* the body of get_keys_elements' loop (lines 108-128): the ANIM_Keyframe of
\* one line; an index past the end of the list raises IndexError
KeyOfLine(line) ==
    LET key == read_prop_keyframe(line)
        inFixed  == HasIndex(key, 2) /\ key[3] = PyStr("fixed")
        outFixed == HasIndex(key, 3) /\ key[4] = PyStr("fixed")
        op == outAngle_pos(key)
    IN  IF \/ ~HasIndex(key, 6)
           \/ (inFixed /\ ~HasIndex(key, 8))
           \/ (outFixed /\ ~HasIndex(key, op + 1))
        THEN [NoKey EXCEPT !.ok = "IndexError"]
        ELSE [ok |-> "ok",
              time |-> key[1], value |-> key[2],
              tan_in |-> key[3], tan_out |-> key[4],
              islocked_tangent |-> key[5].n = 1,
              islocked_weight |-> key[6].n = 1,
              isbreakdown |-> key[7].n = 1,
              tan_in_angle  |-> IF inFixed THEN key[8] ELSE PyNone,
              tan_in_weight |-> IF inFixed THEN key[9] ELSE PyNone,
              tan_out_angle  |-> IF outFixed THEN key[op + 1] ELSE PyNone,
              tan_out_weight |-> IF outFixed THEN key[op + 2] ELSE PyNone]

\* lines another tool may have written: any tangent kinds, any flags, a pair
\* for each fixed tangent
ForeignKeyLines ==
    { << tm, F(45 * Micro), W(ti), W(to), I(f[1]), I(f[2]), I(f[3]) >>
      \o (IF ti = "fixed" THEN << F(15 * Micro), F(2 * Micro) >> ELSE <<>>)
      \o (IF to = "fixed" THEN << F(-10 * Micro), F(1500000) >> ELSE <<>>)
      \o << W(";") >> :
        tm \in {I(0), F(2500000)}, ti \in TangentKinds, to \in TangentKinds,
        f \in {0, 1} \X {0, 1} \X {0, 1} }

KeysIdle ==
    /\ k_pc = "idle"
    /\ k_set = <<>>
    /\ kp = NoPoint
    /\ prev_interp = "None"
    /\ tan_lock = 1
    /\ in_tan = "fixed"
    /\ out_tan = "fixed"
    /\ nkeys = 0
    /\ keyLine = <<>>
    /\ lineSrc = "none"
    /\ anim_key = NoKey

CompleteIdle ==
    /\ c_pc = "idle"
    /\ c_side = "none"
    /\ c_prop = 0
    /\ c_group = <<>>
    /\ c_first = 0
    /\ c_result = <<>>
    /\ c_again = <<>>

SpaceIdle ==
    /\ sp_pc = "idle"
    /\ sp_set = <<>>
    /\ sp_vals = <<>>
    /\ sp_out = <<>>
    /\ sp_back = <<>>

DocIdle ==
    /\ d_pc = "idle"
    /\ d_arm = <<>>
    /\ boneCheckList = <<>>
    /\ d_bone = 0
    /\ d_lines = <<>>
    /\ d_src = <<>>
    /\ d_read = 0
    /\ node = <<>>
    /\ nodeNames = <<>>
    /\ anim_nodes = <<>>

HeaderIdle ==
    /\ h_pc = "idle"
    /\ scene = <<>>
    /\ h_op = <<>>
    /\ h_kwargs = <<>>
    /\ h_lines = <<>>
    /\ h_props = <<>>
    /\ h_imp = <<>>
    /\ h_scene = <<>>

ChannelIdle ==
    /\ ch_pc = "idle"
    /\ anim_fc = <<>>
    /\ ch_set = <<>>
    /\ ch_fc = <<>>
    /\ ch_i = 0

AnimDataIdle ==
    /\ ad_pc = "idle"
    /\ ad_fc = <<>>
    /\ ad_set = <<>>
    /\ ad_lines = <<>>

LoadIdle ==
    /\ l_pc = "idle"
    /\ l_file = <<>>
    /\ l_pos = 0
    /\ l_fline = <<>>
    /\ l_node = <<>>
    /\ l_nodeNames = <<>>
    /\ l_anim_nodes = <<>>
    /\ l_props = <<>>
    /\ fc_keys = <<>>

NodesIdle ==
    /\ w_pc = "idle"
    /\ w_obj = <<>>
    /\ w_nodes = <<>>
    /\ w_i = 0
    /\ doObj = FALSE
    /\ w_curves = <<>>

PassIdle ==
    /\ p_pc = "idle"
    /\ p_set = <<>>
    /\ p_orig = <<>>
    /\ p_group = <<>>
    /\ p_frames = <<>>
    /\ p_vals = <<>>
    /\ p_keys = <<>>
    /\ p_eulRef = <<>>
    /\ p_log = <<>>

UnitsIdle ==
    /\ u_pc = "idle"
    /\ u_scene = <<>>
    /\ u_conv = <<>>
    /\ u_exports = <<>>

RangeIdle ==
    /\ r_pc = "idle"
    /\ r_op = <<>>
    /\ r_scene = <<>>
    /\ r_header = <<>>

InitKeys ==
    /\ k_pc = "write"
    /\ k_set \in KeySettings
    /\ kp = NoPoint
    /\ prev_interp = "None"
    /\ tan_lock = 1
    /\ in_tan = "fixed"
    /\ out_tan = "fixed"
    /\ nkeys = 0
    /\ keyLine = <<>>
    /\ lineSrc = "none"
    /\ anim_key = NoKey
    /\ HeaderIdle
    /\ CompleteIdle
    /\ SpaceIdle
    /\ DocIdle
    /\ ChannelIdle
    /\ AnimDataIdle
    /\ LoadIdle
    /\ NodesIdle
    /\ PassIdle
    /\ UnitsIdle
    /\ RangeIdle

\* one iteration of anim_keys_elements' loop that writes a line (lines 143-186)
anim_keys_elements ==
    /\ k_pc = "write"
    /\ nkeys < MaxKeys
    /\ \E p \in KeyframePoints :
        /\ InTimeRange(k_set, p)
        /\ kp' = p
        /\ in_tan' = KeyInTan(p, prev_interp)
        /\ out_tan' = KeyOutTan(p)
        /\ tan_lock' = KeyTanLock(p, tan_lock)
        /\ keyLine' = KeyLineOf(k_set, p, prev_interp, tan_lock)
        /\ prev_interp' = p.interpolation
    /\ lineSrc' = "export"
    /\ nkeys' = nkeys + 1
    /\ k_pc' = "read"
    /\ UNCHANGED <<k_set, anim_key>>
    /\ UNCHANGED notKeys

\* an iteration that skips a key outside the time range (lines 146-148)
anim_keys_skip ==
    /\ k_pc = "write"
    /\ nkeys < MaxKeys
    /\ \E p \in KeyframePoints : ~InTimeRange(k_set, p)
    /\ nkeys' = nkeys + 1
    /\ UNCHANGED <<k_pc, k_set, kp, prev_interp, tan_lock, in_tan, out_tan,
                   keyLine, lineSrc, anim_key>>
    /\ UNCHANGED notKeys

\* a key line of a file that this exporter did not write
foreign_key_line ==
    /\ k_pc = "write"
    /\ nkeys < MaxKeys
    /\ keyLine' \in ForeignKeyLines
    /\ lineSrc' = "foreign"
    /\ nkeys' = nkeys + 1
    /\ k_pc' = "read"
    /\ UNCHANGED <<k_set, kp, prev_interp, tan_lock, in_tan, out_tan, anim_key>>
    /\ UNCHANGED notKeys

\* one iteration of get_keys_elements' loop up to keys.append (lines 108-129)
get_keys_elements ==
    /\ k_pc = "read"
    /\ anim_key' = KeyOfLine(keyLine)
    /\ k_pc' = "next"
    /\ UNCHANGED <<k_set, kp, prev_interp, tan_lock, in_tan, out_tan, nkeys,
                   keyLine, lineSrc>>
    /\ UNCHANGED notKeys

\* fline = file.readline() (line 131): the cursor leaves the line
key_readline ==
    /\ k_pc = "next"
    /\ k_pc' = "write"
    /\ keyLine' = <<>>
    /\ lineSrc' = "none"
    /\ kp' = NoPoint
    /\ anim_key' = NoKey
    /\ UNCHANGED <<k_set, prev_interp, tan_lock, in_tan, out_tan, nkeys>>
    /\ UNCHANGED notKeys

NextKeys ==
    \/ anim_keys_elements
    \/ anim_keys_skip
    \/ foreign_key_line
    \/ get_keys_elements
    \/ key_readline

SpecKeys == InitKeys /\ [][NextKeys]_vars

-----------------------------------------------------------------------------
(* Claims about key lines *)

\* the float a numeric token stands for, in micro units
TokMicro(tok) == IF tok.k = "i" THEN tok.n * Micro ELSE tok.n

\* the pair of floats a pair of tokens stands for
PairOf(toks) == << PyFloat(TokMicro(toks[1])), PyFloat(TokMicro(toks[2])) >>

ExportedLineRead == k_pc = "next" /\ lineSrc = "export"

\* C1: a key line written by anim_keys_elements is read back by
\* get_keys_elements with the time and value that were written, the writer's
\* in- and out-tangent kinds, its tangent-lock, weight-lock (0) and breakdown
\* (0) flags, and each angle/weight pair on the side it was computed for
\* (absent on a side that is not fixed).
C1_KeyLineRoundTrip ==
    ExportedLineRead =>
        /\ anim_key.ok = "ok"
        /\ anim_key.time = PyFloat(Round6(kp.co[1]))
        /\ anim_key.value = PyFloat(KeyValueToken(k_set, kp).n)
        /\ anim_key.tan_in = PyStr(in_tan)
        /\ anim_key.tan_out = PyStr(out_tan)
        /\ anim_key.islocked_tangent = (tan_lock = 1)
        /\ anim_key.islocked_weight = FALSE
        /\ anim_key.isbreakdown = FALSE
        /\ << anim_key.tan_in_angle, anim_key.tan_in_weight >> =
              IF in_tan = "fixed"
              THEN PairOf(tangent_calc(k_set, kp, handle_left(kp)))
              ELSE << PyNone, PyNone >>
        /\ << anim_key.tan_out_angle, anim_key.tan_out_weight >> =
              IF out_tan = "fixed"
              THEN PairOf(tangent_calc(k_set, kp, handle_right(kp)))
              ELSE << PyNone, PyNone >>

\* C1 witness: an exported line with both tangents fixed and two different
\* pairs has been read, and so has one with only the out-tangent fixed
C1_Witness ==
    /\ ExportedLineRead
    /\ in_tan = "fixed" /\ out_tan = "fixed"
    /\ anim_key.ok = "ok"
    /\ anim_key.tan_in_angle # anim_key.tan_out_angle
    /\ anim_key.time # PyFloat(0)

\* C2: when a key line is read, the in-pair comes from fields 7 and 8 exactly
\* when the in-tangent is fixed; the out-pair comes from fields 9 and 10 when
\* both are fixed and from fields 7 and 8 when only the out-tangent is; a
\* tangent that is not fixed has no angle and no weight; fields 4, 5, 6 are the
\* tangent-lock, weight-lock and breakdown booleans.
C2_KeyFieldPositions ==
    (k_pc = "next" /\ anim_key.ok = "ok") =>
        LET f == cleanLine(keyLine)    \* f[i + 1] is field i
            inFixed  == f[3] = W("fixed")
            outFixed == f[4] = W("fixed")
        IN  /\ << anim_key.tan_in_angle, anim_key.tan_in_weight >> =
                  IF inFixed THEN PairOf(<< f[8], f[9] >>) ELSE << PyNone, PyNone >>
            /\ << anim_key.tan_out_angle, anim_key.tan_out_weight >> =
                  IF outFixed /\ inFixed THEN PairOf(<< f[10], f[11] >>)
                  ELSE IF outFixed THEN PairOf(<< f[8], f[9] >>)
                  ELSE << PyNone, PyNone >>
            /\ anim_key.islocked_tangent = (f[5].n # 0)
            /\ anim_key.islocked_weight = (f[6].n # 0)
            /\ anim_key.isbreakdown = (f[7].n # 0)

\* the line of the specification's scenario C
ScenarioC_Line ==
    << I(0), F(45 * Micro), W("fixed"), W("fixed"), I(1), I(0), I(0),
       F(15 * Micro), F(2 * Micro), F(-10 * Micro), F(1500000), W(";") >>

\* C2 witness: scenario C has been read, with the result the claim names
C2_Witness ==
    /\ k_pc = "next"
    /\ keyLine = ScenarioC_Line
    /\ anim_key.tan_in_angle = PyFloat(15 * Micro)
    /\ anim_key.tan_in_weight = PyFloat(2 * Micro)
    /\ anim_key.tan_out_angle = PyFloat(-10 * Micro)
    /\ anim_key.tan_out_weight = PyFloat(1500000)
    /\ anim_key.islocked_tangent /\ ~anim_key.islocked_weight /\ ~anim_key.isbreakdown

-----------------------------------------------------------------------------
(* Header: export_anim.anim_header_elements, import_anim.get_header_elements,
   import_anim.setupScene *)

\* a frame beyond which the model draws no scene or operator frame number
MaxFrame == 2

\* anim_utils.ANIM_TIME_UNITS: the frame rates that have a name
TimeUnitRates == {15, 24, 25, 30, 48, 50, 60}

ANIM_TIME_UNITS(fps) ==
    CASE fps = 15 -> "game"
      [] fps = 24 -> "film"
      [] fps = 25 -> "pal"
      [] fps = 30 -> "ntsc"
      [] fps = 48 -> "show"
      [] fps = 50 -> "palf"
      [] fps = 60 -> "ntscf"

TimeUnitNames == {ANIM_TIME_UNITS(r) : r \in TimeUnitRates}

\* anim_utils.B3D_TIME_UNITS: the inverse table
B3D_TIME_UNITS(name) == CHOOSE r \in TimeUnitRates : ANIM_TIME_UNITS(r) = name

\* anim_utils.ANIM_LINEAR_UNITS and its inverse
LinearUnits ==
    {"MILLIMETERS", "CENTIMETERS", "METERS", "KILOMETERS", "INCHES", "FEET", "MILES"}

ANIM_LINEAR_UNITS(u) ==
    CASE u = "MILLIMETERS" -> "mm"
      [] u = "CENTIMETERS" -> "cm"
      [] u = "METERS"      -> "m"
      [] u = "KILOMETERS"  -> "km"
      [] u = "INCHES"      -> "in"
      [] u = "FEET"        -> "ft"
      [] u = "MILES"       -> "mi"

LinearUnitNames == {ANIM_LINEAR_UNITS(u) : u \in LinearUnits}

B3D_LINEAR_UNITS(name) == CHOOSE u \in LinearUnits : ANIM_LINEAR_UNITS(u) = name

\* anim_utils.ANIM_ANGULAR_UNITS and its inverse
AngularUnits == {"DEGREES", "RADIANS"}

ANIM_ANGULAR_UNITS(u) == IF u = "DEGREES" THEN "deg" ELSE "rad"

AngularUnitNames == {ANIM_ANGULAR_UNITS(u) : u \in AngularUnits}

B3D_ANGULAR_UNITS(name) == CHOOSE u \in AngularUnits : ANIM_ANGULAR_UNITS(u) = name

\* the scenes the model draws: frame rates with and without a name, the
\* length units with and without a name ("ADAPTIVE" has none)
Scenes ==
    [fps : {24, 30, 60, 23, 120},
     length_unit : {"CENTIMETERS", "METERS", "MILES", "ADAPTIVE"},
     system_rotation : AngularUnits,
     frame_start : 0..1,
     frame_end : {MaxFrame}]

ExportOptions ==
    [use_time_range : {FALSE}, start_time : {0}, end_time : {1}]
    \cup [use_time_range : {TRUE}, start_time : {1}, end_time : 2..MaxFrame + 1]

ImportOptions == [use_fps : BOOLEAN, use_units : BOOLEAN, use_timerange : BOOLEAN]

\* the scene an import starts from
ImportScene ==
    [fps |-> 24, length_unit |-> "METERS", system_rotation |-> "RADIANS",
     frame_start |-> 1, frame_end |-> 250]

\* timeUnit as anim_header_elements picks it (lines 523-526)
HeaderTimeUnit(sc) ==
    IF sc.fps \in TimeUnitRates THEN ANIM_TIME_UNITS(sc.fps) ELSE "Unknown Time Unit"

\* str.format of a string into a line: the words it is made of
WordsOf(str) ==
    IF str = "Unknown Time Unit" THEN << W("Unknown"), W("Time"), W("Unit") >>
    ELSE << W(str) >>

\* start_time and end_time as written (lines 530-533)
HeaderStart(sc, op) == IF op.use_time_range THEN op.start_time ELSE sc.frame_start
HeaderEnd(sc, op)   == IF op.use_time_range THEN op.end_time ELSE sc.frame_end

\* the lines anim_header_elements writes (lines 535-541)
HeaderLines(sc, op) ==
    << << W("animVersion"), W("1.1"), W(";") >>,
       << W("mayaVersion"), W("4.2.0"), W(";"), W("#"), W("this"), W("is"),
          W("actually"), W("Blender"), W("version") >>,
       << W("timeUnit") >> \o WordsOf(HeaderTimeUnit(sc)) \o << W(";") >>,
       << W("linearUnit"), W(ANIM_LINEAR_UNITS(sc.length_unit)), W(";") >>,
       << W("angularUnit"), W(ANIM_ANGULAR_UNITS(sc.system_rotation)), W(";") >>,
       << W("startTime"), I(HeaderStart(sc, op)), W(";") >>,
       << W("endTime"), I(HeaderEnd(sc, op)), W(";") >> >>

\* parse_anim.read_prop_single: the first two tokens of the cleaned line
read_prop_single(line) ==
    LET toks == cleanLine(line)
    IN  << toks[1], toks[2] >>

\* whether import_anim.HEADER_PROP_TYPES[p](v) returns (lines 96-101): int()
\* of a token that is not an integer literal raises ValueError, and so does a
\* version that is not integers joined by dots
VersionStrings == {"1.1", "4.2.0"}

HeaderConverts(p, v) ==
    /\ p \in {"startTime", "endTime"} => v.k = "i"
    /\ p \in {"animVersion", "mayaVersion"} => (v.k = "i" \/ v.s \in VersionStrings)

\* HEADER_PROP_TYPES applied by get_header_elements (lines 186-192): versions
\* become tuples, startTime and endTime ints, the rest stays a str
HeaderValue(p, v) ==
    IF p \in {"animVersion", "mayaVersion"} THEN [t |-> "tuple", n |-> 0, s |-> v.s]
    ELSE IF p \in {"startTime", "endTime"} THEN PyInt(v.n)
    ELSE Raw(v)

\* tokens that are no integer literal
MalformedIntegers == {W("1O"), W("x")}

\* the header of a document in which one of the two integer values is malformed
MalformedHeaders(sc, op) ==
    { [HeaderLines(sc, op) EXCEPT ![q][2] = bad] : q \in {6, 7}, bad \in MalformedIntegers }

HeaderKeys ==
    {"animVersion", "mayaVersion", "timeUnit", "linearUnit", "angularUnit",
     "startTime", "endTime"}

NoProps == [p \in HeaderKeys |-> PyNone]

InitHeader ==
    /\ h_pc = "write"
    /\ scene \in Scenes
    /\ h_op \in ExportOptions
    /\ h_imp \in ImportOptions
    /\ h_kwargs = <<>>
    /\ h_lines = <<>>
    /\ h_props = NoProps
    /\ h_scene = ImportScene
    /\ KeysIdle
    /\ CompleteIdle
    /\ SpaceIdle
    /\ DocIdle
    /\ ChannelIdle
    /\ AnimDataIdle
    /\ LoadIdle
    /\ NodesIdle
    /\ PassIdle
    /\ UnitsIdle
    /\ RangeIdle

\* anim_header_elements for a scene whose units have a name
anim_header_elements ==
    /\ h_pc = "write"
    /\ scene.length_unit \in LinearUnits
    /\ h_kwargs' = [timeUnit |-> HeaderTimeUnit(scene),
                    linearUnit |-> ANIM_LINEAR_UNITS(scene.length_unit),
                    angularUnit |-> ANIM_ANGULAR_UNITS(scene.system_rotation),
                    startTime |-> HeaderStart(scene, h_op),
                    endTime |-> HeaderEnd(scene, h_op)]
    /\ h_lines' = HeaderLines(scene, h_op)
    /\ h_pc' = "read"
    /\ UNCHANGED <<scene, h_op, h_props, h_imp, h_scene>>
    /\ UNCHANGED notHeader

\* anim_header_elements for a length unit outside ANIM_LINEAR_UNITS (line 527):
\* the lookup raises KeyError and nothing is written
anim_header_KeyError ==
    /\ h_pc = "write"
    /\ scene.length_unit \notin LinearUnits
    /\ h_pc' = "KeyError"
    /\ UNCHANGED <<scene, h_op, h_kwargs, h_lines, h_props, h_imp, h_scene>>
    /\ UNCHANGED notHeader

\* the header of a document whose linear or angular unit is a name outside
\* the tables
ForeignHeaders(sc, op) ==
    { [HeaderLines(sc, op) EXCEPT ![4][2] = W("yd")],
      [HeaderLines(sc, op) EXCEPT ![5][2] = W("grad")] }

\* a header with a unit of another program is opened instead of a written one
foreign_header ==
    /\ h_pc = "write"
    /\ scene.length_unit \in LinearUnits
    /\ h_lines' \in ForeignHeaders(scene, h_op)
    /\ h_pc' = "read"
    /\ UNCHANGED <<scene, h_op, h_kwargs, h_props, h_imp, h_scene>>
    /\ UNCHANGED notHeader

\* a header with one malformed integer is opened instead of a written one
malformed_header ==
    /\ h_pc = "write"
    /\ scene.length_unit \in LinearUnits
    /\ h_lines' \in MalformedHeaders(scene, h_op)
    /\ h_pc' = "read"
    /\ UNCHANGED <<scene, h_op, h_kwargs, h_props, h_imp, h_scene>>
    /\ UNCHANGED notHeader

\* one iteration of get_header_elements' loop (lines 179-194)
get_header_elements ==
    /\ h_pc = "read"
    /\ h_lines # <<>>
    /\ LET pv == read_prop_single(Head(h_lines))
       IN  /\ HeaderConverts(pv[1].s, pv[2])
           /\ h_props' = [h_props EXCEPT ![pv[1].s] = HeaderValue(pv[1].s, pv[2])]
    /\ h_lines' = Tail(h_lines)
    /\ UNCHANGED <<h_pc, scene, h_op, h_kwargs, h_imp, h_scene>>
    /\ UNCHANGED notHeader

\* the iteration in which HEADER_PROP_TYPES[p](v) raises ValueError: only
\* KeyError is caught (line 189), so the read ends there
get_header_ValueError ==
    /\ h_pc = "read"
    /\ h_lines # <<>>
    /\ LET pv == read_prop_single(Head(h_lines))
       IN  ~HeaderConverts(pv[1].s, pv[2])
    /\ h_pc' = "ValueError"
    /\ UNCHANGED <<scene, h_op, h_kwargs, h_lines, h_props, h_imp, h_scene>>
    /\ UNCHANGED notHeader

\* whether setupScene's table lookups succeed (lines 201, 206, 207)
SetupLookupsOk(props, imp) ==
    /\ props["timeUnit"].s \in TimeUnitNames
    /\ imp.use_units =>
        /\ props["linearUnit"].s \in LinearUnitNames
        /\ props["angularUnit"].s \in AngularUnitNames

\* setupScene, once the header has been read (lines 198-213)
setupScene ==
    /\ h_pc = "read"
    /\ h_lines = <<>>
    /\ SetupLookupsOk(h_props, h_imp)
    /\ h_scene' =
         [fps |-> IF h_imp.use_fps THEN B3D_TIME_UNITS(h_props["timeUnit"].s)
                  ELSE h_scene.fps,
          length_unit |-> IF h_imp.use_units
                          THEN B3D_LINEAR_UNITS(h_props["linearUnit"].s)
                          ELSE h_scene.length_unit,
          system_rotation |-> IF h_imp.use_units
                              THEN B3D_ANGULAR_UNITS(h_props["angularUnit"].s)
                              ELSE h_scene.system_rotation,
          frame_start |-> IF h_imp.use_timerange THEN h_props["startTime"].n
                          ELSE h_scene.frame_start,
          frame_end |-> IF h_imp.use_timerange THEN h_props["endTime"].n
                        ELSE h_scene.frame_end]
    /\ h_pc' = "done"
    /\ UNCHANGED <<scene, h_op, h_kwargs, h_lines, h_props, h_imp>>
    /\ UNCHANGED notHeader

\* setupScene when a lookup raises KeyError: the import ends there, with the
\* settings of the lines before the failing lookup written (lines 201-207)
setupScene_KeyError ==
    /\ h_pc = "read"
    /\ h_lines = <<>>
    /\ ~SetupLookupsOk(h_props, h_imp)
    /\ h_scene' =
         IF h_props["timeUnit"].s \notin TimeUnitNames THEN h_scene
         ELSE [h_scene EXCEPT
                 !.fps = IF h_imp.use_fps THEN B3D_TIME_UNITS(h_props["timeUnit"].s) ELSE @,
                 !.length_unit = IF h_props["linearUnit"].s \in LinearUnitNames
                                 THEN B3D_LINEAR_UNITS(h_props["linearUnit"].s) ELSE @]
    /\ h_pc' = "KeyError"
    /\ UNCHANGED <<scene, h_op, h_kwargs, h_lines, h_props, h_imp>>
    /\ UNCHANGED notHeader

NextHeader ==
    \/ anim_header_elements
    \/ anim_header_KeyError
    \/ foreign_header
    \/ malformed_header
    \/ get_header_elements
    \/ get_header_ValueError
    \/ setupScene
    \/ setupScene_KeyError

SpecHeader == InitHeader /\ [][NextHeader]_vars

\* the header has been written and read to its end
HeaderRead == h_pc # "write" /\ h_kwargs # <<>> /\ h_lines = <<>>

\* C3: the header written by anim_header_elements is read back with the
\* timeUnit, linearUnit, angularUnit, startTime and endTime that were written,
\* and the three units read are names setupScene can map back.
C3_HeaderRoundTrip ==
    HeaderRead =>
        /\ h_props["timeUnit"] = PyStr(h_kwargs.timeUnit)
        /\ h_props["linearUnit"] = PyStr(h_kwargs.linearUnit)
        /\ h_props["angularUnit"] = PyStr(h_kwargs.angularUnit)
        /\ h_props["startTime"] = PyInt(h_kwargs.startTime)
        /\ h_props["endTime"] = PyInt(h_kwargs.endTime)
        /\ h_props["timeUnit"].s \in TimeUnitNames
        /\ h_props["linearUnit"].s \in LinearUnitNames
        /\ h_props["angularUnit"].s \in AngularUnitNames

-----------------------------------------------------------------------------
(* Channel completion: import_anim.complete_animFCgroup and its call in
   write_animation; the completion loop of export_anim.prep_node *)

\* the most channels the model gives one group of a file
MaxChannels == 3

\* ANIM_Keyframe, without the angle/weight fields (None here)
AnimKey(t, v, tin, tout, lock, wlock, bd) ==
    [time |-> t, value |-> v, tan_in |-> tin, tan_out |-> tout,
     islocked_tangent |-> lock, islocked_weight |-> wlock, isbreakdown |-> bd]

\* import_anim.animkey_make_simple
animkey_make_simple(t, val) == AnimKey(t, val, "auto", "auto", 1, 0, 0)

\* a keyframe point as fc.keyframe_points.insert(frame, value) creates it
\* (Blender's RNA insert: bezier interpolation, auto-clamped handles)
InsertedPoint(frame, value) ==
    [co |-> <<frame, value>>, interpolation |-> "BEZIER",
     handle_left_type |-> "AUTO_CLAMPED", handle_right_type |-> "AUTO_CLAMPED"]

\* a channel: ANIM_FCurve (import) or FCurve (export); id is the node's index
\* field of the file, -1 for a channel made by completion
Channel(ai, id, keys) == [array_index |-> ai, id |-> id, keys |-> keys]

\* Python's None in a list of channels
NoneCh == Channel(-99, -99, <<>>)

\* the key lists the model draws for a channel read from a file
ImportKeySeqs ==
    { << AnimKey(8, 5, "spline", "spline", 1, 0, 0) >>,
      << AnimKey(1, 0, "fixed", "linear", 0, 0, 0),
         AnimKey(10, 5, "linear", "step", 1, 0, 1) >>,
      << AnimKey(0, 0, "linear", "linear", 1, 0, 0),
         AnimKey(10, 5, "linear", "linear", 1, 0, 0) >> }

\* the key lists the model draws for a curve of an action
ExportKeySeqs ==
    { << [co |-> <<8, 5>>, interpolation |-> "BEZIER",
          handle_left_type |-> "FREE", handle_right_type |-> "FREE"] >>,
      << [co |-> <<1, 0>>, interpolation |-> "LINEAR",
          handle_left_type |-> "AUTO", handle_right_type |-> "VECTOR"],
         [co |-> <<10, 5>>, interpolation |-> "BEZIER",
          handle_left_type |-> "ALIGNED", handle_right_type |-> "ALIGNED"] >>,
      << [co |-> <<0, 0>>, interpolation |-> "LINEAR",
          handle_left_type |-> "VECTOR", handle_right_type |-> "VECTOR"],
         [co |-> <<10, 5>>, interpolation |-> "LINEAR",
          handle_left_type |-> "VECTOR", handle_right_type |-> "VECTOR"] >> }

\* component indices a file can declare: the letter's code minus ASCII_X
\* (W, X, Y, Z and "[")
ImportIndices == -1..3

\* the groups a file can hold for one property of one node
ImportGroups ==
    UNION { [1..n -> {Channel(ai, 0, ks) : ai \in ImportIndices, ks \in ImportKeySeqs}] :
            n \in 1..MaxChannels }

\* the groups an action can hold for property i: distinct indices in range
ExportGroups(i) ==
    LET n == IF i = 2 THEN 4 ELSE 3
        chans == {Channel(ai, 0, ks) : ai \in 0..n - 1, ks \in ExportKeySeqs}
    IN  { g \in UNION { [1..m -> chans] : m \in 1..n } :
            \A a, b \in 1..Len(g) : a < b => g[a].array_index < g[b].array_index }

\* sorted(group, key=array_index): a stable insertion sort
RECURSIVE SortByIndex(_)
SortByIndex(g) ==
    IF g = <<>> THEN <<>>
    ELSE LET rest == SortByIndex(SubSeq(g, 1, Len(g) - 1))
             x == g[Len(g)]
             before == {j \in 1..Len(rest) : rest[j].array_index <= x.array_index}
             cut == IF before = {} THEN 0
                    ELSE CHOOSE j \in before : \A h \in before : h <= j
         IN  SubSeq(rest, 1, cut) \o <<x>> \o SubSeq(rest, cut + 1, Len(rest))

\* import_anim.get_frames: the union of the key times of the channels
ImportFrames(g) ==
    UNION { {g[c].keys[j].time : j \in 1..Len(g[c].keys)} : c \in 1..Len(g) }

\* export_anim.get_frames without a time range
ExportFrames(g) ==
    UNION { {g[c].keys[j].co[1] : j \in 1..Len(g[c].keys)} : c \in 1..Len(g) }

\* frames.update(fri) for each channel in turn: the times in the order in
\* which get_frames puts them into the set
FrameUpdates(side, g) ==
    LET RECURSIVE upd(_)
        upd(c) == IF c > Len(g) THEN <<>>
                  ELSE [j \in 1..Len(g[c].keys) |->
                           IF side = "export" THEN g[c].keys[j].co[1]
                           ELSE g[c].keys[j].time] \o upd(c + 1)
    IN  upd(1)

\* a CPython set of fewer than five elements: a table of 8 slots, free ones
\* marked -1. A whole non-negative float x hashes to x; it is put into slot
\* x mod 8 and, while the slot is taken by another element, into slot
\* (5 * slot + 1 + perturb) mod 8 with perturb shifted right by 5 bits.
RECURSIVE SetProbe(_, _, _, _)
SetProbe(table, x, i, perturb) ==
    IF table[i] = x THEN table
    ELSE IF table[i] = -1 THEN [table EXCEPT ![i] = x]
    ELSE SetProbe(table, x, (i * 5 + 1 + perturb \div 32) % 8, perturb \div 32)

RECURSIVE SetUpdate(_, _)
SetUpdate(table, seq) ==
    IF seq = <<>> THEN table
    ELSE SetUpdate(SetProbe(table, Head(seq), Head(seq) % 8, Head(seq)), Tail(seq))

\* list(frames): the elements in slot order
ListOfSet(updates) ==
    LET table == SetUpdate([i \in 0..7 |-> -1], updates)
        RECURSIVE from(_)
        from(i) == IF i > 7 THEN <<>>
                   ELSE (IF table[i] = -1 THEN <<>> ELSE <<table[i]>>) \o from(i + 1)
    IN  from(0)

\* list(frames)[0]
FirstOfSet(updates) == ListOfSet(updates)[1]

\* list[i] = x in Python: a negative index counts from the end; an index out
\* of range raises IndexError, which both completion loops swallow
IndexInRange(list, i) == i >= -Len(list) /\ i < Len(list)

ListStore(list, i, x) ==
    [list EXCEPT ![IF i < 0 THEN Len(list) + i + 1 ELSE i + 1] = x]

\* fc_identity (import line 323; export lines 327-332)
fc_identity_quat_everywhere(side, i) == <<1, 0, 0, 0>>

fc_identity(side, i) ==
    IF side = "export" /\ i = 2 THEN <<1, 0, 0, 0>> ELSE <<0, 0, 0>>

\* the channel made for a missing component k (import line 333; export
\* lines 340-341)
NewChannel(side, k, val, first_frame) ==
    IF side = "import"
    THEN Channel(k, -1, << animkey_make_simple(first_frame, val) >>)
    ELSE Channel(k, -1, << InsertedPoint(first_frame, val) >>)

\* the loop body with the present channel stored one slot before its index
CompleteStep_shifted(side, new, k, group, val, first_frame) ==
    LET fc_ids == {group[c].array_index : c \in 1..Len(group)}
        made == IF k \notin fc_ids
                THEN ListStore(new, k, NewChannel(side, k, val, first_frame))
                ELSE new
    IN  IF k < Len(group) /\ IndexInRange(made, group[k + 1].array_index - 1)
        THEN ListStore(made, group[k + 1].array_index - 1, group[k + 1])
        ELSE made

\* one iteration of the completion loop for component k (import lines
\* 330-339; export lines 338-347)
CompleteStep(side, new, k, group, val, first_frame) ==
    LET fc_ids == {group[c].array_index : c \in 1..Len(group)}
        made == IF k \notin fc_ids
                THEN ListStore(new, k, NewChannel(side, k, val, first_frame))
                ELSE new
    IN  IF k < Len(group) /\ IndexInRange(made, group[k + 1].array_index)
        THEN ListStore(made, group[k + 1].array_index, group[k + 1])
        ELSE made

RECURSIVE CompleteLoop(_, _, _, _, _, _)
CompleteLoop(side, new, k, group, identity, first_frame) ==
    IF k >= Len(identity) THEN new
    ELSE CompleteLoop(side,
                      CompleteStep(side, new, k, group, identity[k + 1], first_frame),
                      k + 1, group, identity, first_frame)

\* import_anim.complete_animFCgroup
complete_animFCgroup(anim_fcgroup, first_frame) ==
    CompleteLoop("import", [k \in 1..3 |-> NoneCh], 0, anim_fcgroup,
                 fc_identity("import", 1), first_frame)

\* the completion of prep_node for property i (lines 325-348)
prep_node_complete(i, fc_group, first_frame) ==
    IF (Len(fc_group) = 3 /\ i # 2) \/ Len(fc_group) = 4 THEN fc_group
    ELSE CompleteLoop("export", [k \in 1..Len(fc_identity("export", i)) |-> NoneCh],
                      0, fc_group, fc_identity("export", i), first_frame)

InitComplete ==
    /\ c_pc = "start"
    /\ c_side \in {"import", "export"}
    /\ c_prop \in (IF c_side = "import" THEN 0..1 ELSE 0..2)
    /\ c_group \in (IF c_side = "import" THEN ImportGroups ELSE ExportGroups(c_prop))
    /\ c_first = 0
    /\ c_result = <<>>
    /\ c_again = <<>>
    /\ KeysIdle
    /\ HeaderIdle
    /\ SpaceIdle
    /\ DocIdle
    /\ ChannelIdle
    /\ AnimDataIdle
    /\ LoadIdle
    /\ NodesIdle
    /\ PassIdle
    /\ UnitsIdle
    /\ RangeIdle

\* write_animation for a location or euler group with axis_transform set, up
\* to the completion (lines 562-581)
import_complete ==
    /\ c_pc = "start"
    /\ c_side = "import"
    /\ LET anim_fcgroup == SortByIndex(c_group)
           first == FirstOfSet(FrameUpdates("import", anim_fcgroup))
       IN  /\ c_first' = first
           /\ c_result' = IF Len(anim_fcgroup) < 3
                          THEN complete_animFCgroup(anim_fcgroup, first)
                          ELSE anim_fcgroup
    /\ c_pc' = "completed"
    /\ UNCHANGED <<c_side, c_prop, c_group, c_again>>
    /\ UNCHANGED notComplete

\* prep_node for a location or rotation group with bake_axis set, up to the
\* completion (lines 310-348)
export_complete ==
    /\ c_pc = "start"
    /\ c_side = "export"
    /\ LET fc_group == SortByIndex(c_group)
           first == FirstOfSet(FrameUpdates("export", fc_group))
       IN  /\ c_first' = first
           /\ c_result' = prep_node_complete(c_prop, fc_group, first)
    /\ c_pc' = "completed"
    /\ UNCHANGED <<c_side, c_prop, c_group, c_again>>
    /\ UNCHANGED notComplete

\* complete_animFCgroup called on what it returned
complete_again ==
    /\ c_pc = "completed"
    /\ c_side = "import"
    /\ Len(c_group) < 3
    /\ c_again' = complete_animFCgroup(c_result, c_first)
    /\ c_pc' = "again"
    /\ UNCHANGED <<c_side, c_prop, c_group, c_first, c_result>>
    /\ UNCHANGED notComplete

NextComplete ==
    \/ import_complete
    \/ export_complete
    \/ complete_again

SpecComplete == InitComplete /\ [][NextComplete]_vars

\* the full count of a group: 4 for a quaternion group on export, else 3
FullCount == IF c_side = "export" /\ c_prop = 2 THEN 4 ELSE 3

\* the group as both callers hand it to the completion: sorted by index
GivenGroup == SortByIndex(c_group)

DistinctInRange ==
    /\ \A a, b \in 1..Len(c_group) :
          a # b => c_group[a].array_index # c_group[b].array_index
    /\ \A a \in 1..Len(c_group) : c_group[a].array_index \in 0..FullCount - 1

IdentityOf(p) == IF FullCount = 4 /\ p = 0 THEN 1 ELSE 0

\* the one key of a channel made by the completion: identity value, auto/auto
\* tangents, tangent lock set, breakdown unset
IdentityKey(ch, p) ==
    /\ Len(ch.keys) = 1
    /\ IF c_side = "import"
       THEN /\ ch.keys[1].value = IdentityOf(p)
            /\ ch.keys[1].tan_in = "auto"
            /\ ch.keys[1].tan_out = "auto"
            /\ ch.keys[1].islocked_tangent = 1
            /\ ch.keys[1].isbreakdown = 0
       ELSE /\ ch.keys[1].co[2] = IdentityOf(p)
            /\ KeyInTan(ch.keys[1], "None") = "auto"
            /\ KeyOutTan(ch.keys[1]) = "auto"
            /\ KeyTanLock(ch.keys[1], 1) = 1

\* C4: completing a non-empty group with distinct component indices and fewer
\* channels than the full count gives exactly 3 channels (4 for a quaternion
\* group on export); a channel that was present sits at the position of its
\* index with its keys unchanged, a missing index holds a new channel with one
\* identity-valued key, auto/auto tangents, tangent lock set and breakdown
\* unset; a group that has the full count comes back unchanged
C4_CompletionFillsByIndex ==
    (c_pc \in {"completed", "again"} /\ DistinctInRange) =>
        IF Len(GivenGroup) >= FullCount THEN c_result = GivenGroup
        ELSE /\ Len(c_result) = FullCount
             /\ \A p \in 0..FullCount - 1 :
                   /\ c_result[p + 1].array_index = p
                   /\ \A a \in 1..Len(c_group) :
                         c_group[a].array_index = p => c_result[p + 1] = c_group[a]
                   /\ (\A a \in 1..Len(c_group) : c_group[a].array_index # p)
                         => IdentityKey(c_result[p + 1], p)

\* a quaternion group of an action with only component 2 keyed was completed
C4_Witness ==
    /\ c_pc = "completed"
    /\ c_side = "export"
    /\ c_prop = 2
    /\ Len(c_group) = 1
    /\ c_group[1].array_index = 2
    /\ Len(c_result) = 4
    /\ c_result[1].keys[1].co[2] = 1
    /\ c_result[3] = c_group[1]

-----------------------------------------------------------------------------
(* Space conversion of a location group: offset_transforms of export_anim
   and of import_anim, and the matrix write_animation hands to the latter *)

\* frames of the group that is converted
MaxFrames == 2

\* a 4x4 matrix with last row (0, 0, 0, 1): its 3x3 part and its translation
Matrix(r, t) == [r |-> r, t |-> t]

Identity3 == << <<1, 0, 0>>, <<0, 1, 0>>, <<0, 0, 1>> >>

\* Vector *= s
VecScale(v, s) == <<v[1] * s, v[2] * s, v[3] * s>>

VecAdd(u, v) == <<u[1] + v[1], u[2] + v[2], u[3] + v[3]>>

\* 3x3 matrix times vector
MatVec(r, v) ==
    [i \in 1..3 |-> r[i][1] * v[1] + r[i][2] * v[2] + r[i][3] * v[3]]

\* 3x3 matrix times 3x3 matrix
Mat3Mul(a, b) ==
    [i \in 1..3 |-> [j \in 1..3 |->
        a[i][1] * b[1][j] + a[i][2] * b[2][j] + a[i][3] * b[3][j]]]

\* A @ B
MatMul(A, B) == Matrix(Mat3Mul(A.r, B.r), VecAdd(MatVec(A.r, B.t), A.t))

\* Matrix.Translation(v)
Translation(v) == Matrix(Identity3, v)

Det3(r) ==
      r[1][1] * (r[2][2] * r[3][3] - r[2][3] * r[3][2])
    - r[1][2] * (r[2][1] * r[3][3] - r[2][3] * r[3][1])
    + r[1][3] * (r[2][1] * r[3][2] - r[2][2] * r[3][1])

\* the entry (i, j) of the inverse of r: the cofactor (j, i) over the
\* determinant (exact for the matrices drawn, whose determinant is 1 or -1)
InverseEntry(r, i, j) ==
    LET a == IF j = 1 THEN 2 ELSE 1
        b == IF j = 3 THEN 2 ELSE 3
        c == IF i = 1 THEN 2 ELSE 1
        d == IF i = 3 THEN 2 ELSE 3
        minor == r[a][c] * r[b][d] - r[a][d] * r[b][c]
        sign == IF (i + j) % 2 = 0 THEN 1 ELSE -1
    IN  (sign * minor) \div Det3(r)

Inverse3(r) == [i \in 1..3 |-> [j \in 1..3 |-> InverseEntry(r, i, j)]]

\* an inversion that inverts the 3x3 part and keeps the translation
inverted_rotation_only(M) == Matrix(Inverse3(M.r), M.t)

\* Matrix.inverted()
inverted(M) == Matrix(Inverse3(M.r), VecScale(MatVec(Inverse3(M.r), M.t), -1))

\* parent matrices: axis conversions and bone rest matrices without scale
ParentMatrices ==
    { Matrix(r, t) :
        r \in { Identity3,
                << <<1, 0, 0>>, <<0, 0, 1>>, <<0, -1, 0>> >>,
                << <<0, -1, 0>>, <<1, 0, 0>>, <<0, 0, 1>> >>,
                << <<0, 0, 1>>, <<1, 0, 0>>, <<0, 1, 0>> >> },
        t \in { <<0, 0, 0>>, <<1, -2, 3>> } }

LocationValues == { <<0, 0, 0>>, <<1, 2, 3>>, <<-2, 0, 5>> }

\* export_anim.offset_transforms, attr_name 'translate' (lines 78-84): the
\* values written to the three curves at the frame
export_offset_transforms(node_tForm_Space, keys_array, apply_scaling, global_scale) ==
    LET key_transValues == IF apply_scaling THEN VecScale(keys_array, global_scale)
                           ELSE keys_array
    IN  MatMul(node_tForm_Space, Translation(key_transValues)).t

\* import_anim.offset_transforms, prop 'location' (lines 449-458): the
\* values given to the three keys of the frame
import_offset_transforms(node_matrix_parent, keys_array, apply_scaling, global_scale) ==
    LET key_transValues == IF apply_scaling THEN VecScale(keys_array, global_scale)
                           ELSE keys_array
    IN  MatMul(node_matrix_parent, Translation(key_transValues)).t

\* write_animation lines 540 and 544: the matrix the import side converts
\* with, the inverse of the one the export side used for the node
node_matrix_parent_inv(M) == inverted(M)

InitSpace ==
    /\ sp_pc = "export"
    /\ sp_set \in [M : ParentMatrices,
                    export_bone : BOOLEAN, import_bone : BOOLEAN,
                    export_scale : {1, 2}, import_scale : {1, 2}]
    /\ sp_vals \in UNION { [1..n -> LocationValues] : n \in 1..MaxFrames }
    /\ sp_out = <<>>
    /\ sp_back = <<>>
    /\ KeysIdle
    /\ HeaderIdle
    /\ CompleteIdle
    /\ DocIdle
    /\ ChannelIdle
    /\ AnimDataIdle
    /\ LoadIdle
    /\ NodesIdle
    /\ PassIdle
    /\ UnitsIdle
    /\ RangeIdle

\* one pass of prep_node's second frame loop (lines 363-366): the values
\* gathered for the frame are converted and stored on the curves
export_frame ==
    /\ sp_pc = "export"
    /\ sp_out' = Append(sp_out,
                        export_offset_transforms(sp_set.M, sp_vals[Len(sp_out) + 1],
                                                 sp_set.export_bone, sp_set.export_scale))
    /\ sp_pc' = IF Len(sp_out) + 1 = Len(sp_vals) THEN "import" ELSE "export"
    /\ UNCHANGED <<sp_set, sp_vals, sp_back>>
    /\ UNCHANGED notSpace

\* one pass of write_animation's frame loop (lines 611-615) on the values
\* that were exported
import_frame ==
    /\ sp_pc = "import"
    /\ sp_back' = Append(sp_back,
                         import_offset_transforms(node_matrix_parent_inv(sp_set.M),
                                                  sp_out[Len(sp_back) + 1],
                                                  sp_set.import_bone, sp_set.import_scale))
    /\ sp_pc' = IF Len(sp_back) + 1 = Len(sp_vals) THEN "done" ELSE "import"
    /\ UNCHANGED <<sp_set, sp_vals, sp_out>>
    /\ UNCHANGED notSpace

NextSpace ==
    \/ export_frame
    \/ import_frame

SpecSpace == InitSpace /\ [][NextSpace]_vars

\* C6: with the same node kind and a global scale of 1 on both sides, a
\* location value converted on export with M and then on import with the
\* inverse of M is the value the group had, at every frame
C6_TranslationRoundTrip ==
    (/\ sp_pc \in {"import", "done"}
     /\ sp_set.export_bone = sp_set.import_bone
     /\ sp_set.export_scale = 1
     /\ sp_set.import_scale = 1)
        => \A k \in 1..Len(sp_back) : sp_back[k] = sp_vals[k]

\* two frames of a bone went out through a rotating, translating parent
\* matrix, were changed by it, and came back
C6_Witness ==
    /\ sp_pc = "done"
    /\ sp_set.export_bone /\ sp_set.import_bone
    /\ sp_set.export_scale = 1 /\ sp_set.import_scale = 1
    /\ sp_set.M.r # Identity3
    /\ sp_set.M.t # <<0, 0, 0>>
    /\ Len(sp_vals) = 2
    /\ sp_vals[1] # sp_vals[2]
    /\ sp_out[1] # sp_vals[1]
    /\ sp_out[2] # sp_vals[2]
    /\ sp_back = sp_vals

-----------------------------------------------------------------------------
(* The anim declarations of a document: anim_fcurve_elements for an
   armature (export_anim), read_prop_anim (parse_anim), get_node_elements,
   pack_anim_fcurves, the line loop of load and the node loop of
   write_animation (import_anim) *)

\* bones of the exported armature
MaxBones == 3

\* anim_utils.ASCII_X
ASCII_X == 88

\* anim_utils.FCURVE_PATHS_ID_TO_NAME
FCURVE_PATHS_ID_TO_NAME(i) ==
    CASE i = 0 -> "location"
      [] i = 1 -> "rotation_euler"
      [] i = 2 -> "rotation_quaternion"
      [] i = 3 -> "scale"
      [] i = 4 -> "custom"

\* anim_utils.FCURVE_PATHS_NAME_TO_ID.get(name, 4)
FCURVE_PATHS_NAME_TO_ID(name) ==
    CASE name = "location" -> 0
      [] name = "rotation_euler" -> 1
      [] name = "rotation_quaternion" -> 2
      [] name = "scale" -> 3
      [] OTHER -> 4

\* anim_utils.ANIM_ATTR_NAMES[fc_path], fc_path itself on KeyError
ANIM_ATTR_NAMES(fc_path) ==
    CASE fc_path = "location" -> "translate"
      [] fc_path = "rotation_euler" -> "rotate"
      [] fc_path = "rotation_quaternion" -> "rotate"
      [] fc_path = "scale" -> "scale"
      [] OTHER -> fc_path

\* anim_utils.B3D_ATTR_NAMES
B3D_ATTR_NAMES(attr) ==
    CASE attr = "translate" -> "location"
      [] attr = "rotate" -> "rotation_euler"
      [] attr = "scale" -> "scale"

\* the token "<attr>.<attr><c>", c the character with code n
AttrFull(attr, n) == [k |-> "a", s |-> attr, n |-> n]

\* the token "<attr><c>"
AttrShort(attr, n) == [k |-> "b", s |-> attr, n |-> n]

\* the line that opens an animData block; the block it opens goes with it
AnimDataLine == << W("animData"), W("{") >>

\* ANIM_Node
ANIM_Node(name, property, array_index, children, id) ==
    [name |-> name, property |-> property, array_index |-> array_index,
     children |-> children, id |-> id]

\* a curve of the exported action
FCurve(ai, keys) == Channel(ai, 0, keys)

KeysInRange == CHOOSE ks \in ExportKeySeqs : Len(ks) = 2

KeysLate == CHOOSE ks \in ExportKeySeqs : Len(ks) = 1

\* fc_list / objFcurves: one list of curves per property id 0..4
FcList(loc, eul, quat, scl) == << loc, eul, quat, scl, <<>> >>

NoCurves == FcList(<<>>, <<>>, <<>>, <<>>)

\* what the model draws for one bone: use_deform and the bone's curves
BoneChoices ==
    { [use_deform |-> TRUE,  fc_list |-> NoCurves],
      [use_deform |-> TRUE,  fc_list |-> FcList(<<FCurve(0, KeysInRange)>>, <<>>, <<>>, <<>>)],
      [use_deform |-> TRUE,  fc_list |-> FcList(<<>>, <<>>, <<FCurve(0, KeysLate)>>, <<>>)],
      [use_deform |-> FALSE, fc_list |-> FcList(<<>>, <<>>, <<>>, <<FCurve(1, KeysInRange)>>)] }

\* what the model draws for the armature object's own curves
ObjectChoices ==
    { NoCurves,
      FcList(<<>>, <<FCurve(1, KeysInRange)>>, <<>>, <<FCurve(2, KeysInRange)>>),
      FcList(<<>>, <<>>,
             << FCurve(0, KeysInRange), FCurve(1, KeysInRange),
                FCurve(2, KeysInRange), FCurve(3, KeysInRange) >>,
             <<>>),
      FcList(<<>>, <<>>, <<FCurve(3, KeysInRange)>>, <<>>),
      FcList(<<>>, <<FCurve(0, KeysInRange)>>, <<FCurve(0, KeysInRange)>>, <<>>) }

\* bone names without a character names_sanitize replaces
BoneNames == << "Root", "Spine", "Head", "Hand", "Foot" >>

\* an armature whose first bone is the parent of the others
Armatures ==
    UNION { { [i \in 1..n |->
                 [name |-> BoneNames[i], use_deform |-> ch[i].use_deform,
                  children |-> IF i = 1 THEN n - 1 ELSE 0,
                  fc_list |-> ch[i].fc_list]] :
              ch \in [1..n -> BoneChoices] } :
            n \in 1..MaxBones }

ExportJobs ==
    [bones : Armatures, objFcurves : ObjectChoices,
     only_deform_bones : BOOLEAN, bake_axis : BOOLEAN,
     use_time_range : BOOLEAN, start_time : {0}, end_time : {5}]

\* export_anim.get_frames
export_get_frames(fcurves, use_time_range, start_time, end_time) ==
    UNION { { fcurves[c].keys[j].co[1] :
                j \in { h \in 1..Len(fcurves[c].keys) :
                          use_time_range =>
                              /\ fcurves[c].keys[h].co[1] >= start_time
                              /\ fcurves[c].keys[h].co[1] <= end_time } } :
            c \in 1..Len(fcurves) }

\* get_node_info: the name as written, row and the number of children
get_node_info(n) == [name |-> n.name, row |-> 0, child |-> n.children]

\* the channel character of write_fcurve, as its code
fc_chan(fc) == ASCII_X + fc.array_index

\* write_fcurve: the anim line of a curve
write_fcurve(fc, node_info, fc_path, attr_i) ==
    << W("anim"),
       AttrFull(ANIM_ATTR_NAMES(fc_path), fc_chan(fc)),
       AttrShort(ANIM_ATTR_NAMES(fc_path), fc_chan(fc)),
       W(node_info.name), I(node_info.row), I(node_info.child), I(attr_i), W(";") >>

\* prep_node for one property group (lines 303-374): the curves that get an
\* anim line, in order; position 3 of a quaternion group is skipped
GroupWritten(i, fcs, job) ==
    LET fc_group == SortByIndex(fcs)
        frames == export_get_frames(fc_group, job.use_time_range,
                                    job.start_time, job.end_time)
        updates == SelectSeq(FrameUpdates("export", fc_group),
                             LAMBDA t : job.use_time_range =>
                                 (t >= job.start_time /\ t <= job.end_time))
        full == IF i < 3 /\ job.bake_axis
                THEN prep_node_complete(i, fc_group, FirstOfSet(updates))
                ELSE fc_group
        n == IF i = 2 /\ Len(full) > 3 THEN 3 ELSE Len(full)
    IN  IF fc_group = <<>> \/ frames = {} THEN <<>>
        ELSE [j \in 1..n |-> [i |-> i, fc |-> full[j]]]

\* prep_node: the lines written for a node, each anim line followed by its
\* animData block, with what each was written for
prep_node(who, node_info, fcGroups, job) ==
    LET flat == GroupWritten(0, fcGroups[1], job) \o GroupWritten(1, fcGroups[2], job)
                \o GroupWritten(2, fcGroups[3], job) \o GroupWritten(3, fcGroups[4], job)
                \o GroupWritten(4, fcGroups[5], job)
        at(q) == flat[(q + 1) \div 2]
    IN  [lines |-> [q \in 1..2 * Len(flat) |->
                      IF q % 2 = 1
                      THEN write_fcurve(at(q).fc, node_info,
                                        FCURVE_PATHS_ID_TO_NAME(at(q).i), (q - 1) \div 2)
                      ELSE AnimDataLine],
         src |-> [q \in 1..2 * Len(flat) |->
                      [kind |-> IF q % 2 = 1 THEN "channel" ELSE "animData",
                       who |-> who, i |-> at(q).i,
                       array_index |-> at(q).fc.array_index]]]

\* the bare anim line of a bone without animation data (lines 487-490)
placeholder_line(node_info) ==
    << W("anim"), W(node_info.name), I(node_info.row), I(node_info.child), I(0), W(";") >>

\* the bone is marked animated (lines 434-446): it has a curve and is in
\* eval_bones
MarkedAnimated(b, job) ==
    /\ \E g \in 1..5 : b.fc_list[g] # <<>>
    /\ (job.only_deform_bones => b.use_deform)

\* lastValid_i (lines 453-458)
lastValid_i(job) ==
    LET marked == {i \in 0..Len(job.bones) - 1 : MarkedAnimated(job.bones[i + 1], job)}
    IN  IF marked = {} THEN 0
        ELSE CHOOSE i \in marked : \A h \in marked : h <= i

\* boneCheckList after the cull (lines 428-461)
BoneCheckList(job) ==
    [q \in 1..lastValid_i(job) + 1 |->
        IF MarkedAnimated(job.bones[q], job)
        THEN [bone |-> q - 1, animated |-> TRUE, fc_list |-> job.bones[q].fc_list]
        ELSE [bone |-> q - 1, animated |-> FALSE, fc_list |-> <<>>]]

\* bone_frames (lines 473-475)
bone_frames(fcBoneData, job) ==
    UNION { export_get_frames(fcBoneData.fc_list[g], job.use_time_range,
                              job.start_time, job.end_time) :
            g \in 1..Len(fcBoneData.fc_list) }

\* parse_anim.read_prop_anim: the fields after "anim ", the last three cast
\* with getInt
read_prop_anim(line) ==
    LET p == Tail(cleanLine(line))
    IN  [props |-> [q \in 1..Len(p) |-> IF q > Len(p) - 3 THEN getInt(p[q]) ELSE p[q]],
         isEmpty |-> Len(p) < 4]

\* a field of props as the Python value it is: a str unless it was cast
AsValue(x) == IF "t" \in DOMAIN x THEN x ELSE Raw(x)

\* get_node_elements with children taken one field early
get_node_elements_row(fline) ==
    LET r == read_prop_anim(fline)
        props == r.props
        attr == props[1]
    IN  IF r.isEmpty THEN PyNone
        ELSE IF attr.k = "a"
        THEN ANIM_Node(AsValue(props[3]), PyStr(B3D_ATTR_NAMES(attr.s)),
                       attr.n - ASCII_X, props[Len(props) - 2], props[Len(props)])
        ELSE ANIM_Node(AsValue(props[3]), AsValue(attr), 0,
                       props[Len(props) - 2], props[Len(props)])

\* import_anim.get_node_elements; of the words the model draws only the
\* dotted attribute tokens contain a key of B3D_ATTR_NAMES
get_node_elements(fline) ==
    LET r == read_prop_anim(fline)
        props == r.props
        attr == props[1]
    IN  IF r.isEmpty THEN PyNone
        ELSE IF attr.k = "a"
        THEN ANIM_Node(AsValue(props[3]), PyStr(B3D_ATTR_NAMES(attr.s)),
                       attr.n - ASCII_X, props[Len(props) - 1], props[Len(props)])
        ELSE ANIM_Node(AsValue(props[3]), AsValue(attr), 0,
                       props[Len(props) - 1], props[Len(props)])

\* nodeNames.index(name)
IndexOf(name, names) ==
    CHOOSE q \in 1..Len(names) :
        names[q] = name /\ \A h \in 1..q - 1 : names[h] # name

\* import_anim.pack_anim_fcurves; a curve is kept as its node
pack_anim_fcurves(n, names, nodes) ==
    LET array_id == 1 + FCURVE_PATHS_NAME_TO_ID(n.property.s)
        node_id == IndexOf(n.name, names)
        group == IF nodes[node_id] = <<>>
                 THEN << n.name, <<>>, <<>>, <<>>, <<>>, <<>> >>
                 ELSE nodes[node_id]
    IN  [nodes EXCEPT ![node_id] =
            [group EXCEPT ![array_id + 1] = Append(group[array_id + 1], n)]]

\* documents that another program wrote
ForeignDocs ==
    { << << W("anim"), AttrFull("translate", 88), W("X"), W("Root"),
            I(0), I(2), I(0), W(";") >>,
         AnimDataLine,
         << W("anim"), AttrFull("rotate", 90), AttrShort("rotate", 90), W("Arm"),
            I(1), I(0), I(1), W(";") >>,
         AnimDataLine,
         << W("anim"), AttrFull("scale", 89), AttrShort("scale", 89), W("Arm"),
            I(1), I(0), I(2), W(";") >>,
         AnimDataLine >>,
      << << W("anim"), AttrFull("translate", 87), AttrShort("translate", 87), W("Root"),
            I(0), I(1), I(0), W(";") >>,
         AnimDataLine,
         << W("anim"), W("visibility"), W("visibility"), W("Root"),
            I(0), I(1), I(1), W(";") >>,
         AnimDataLine >> }

InitDoc ==
    /\ \/ d_pc = "object" /\ d_arm \in ExportJobs
       \/ d_pc = "foreign" /\ d_arm = <<>>
    /\ boneCheckList = <<>>
    /\ d_bone = 0
    /\ d_lines = <<>>
    /\ d_src = <<>>
    /\ d_read = 0
    /\ node = PyNone
    /\ nodeNames = <<>>
    /\ anim_nodes = <<>>
    /\ KeysIdle
    /\ HeaderIdle
    /\ CompleteIdle
    /\ SpaceIdle
    /\ ChannelIdle
    /\ AnimDataIdle
    /\ LoadIdle
    /\ NodesIdle
    /\ PassIdle
    /\ UnitsIdle
    /\ RangeIdle

\* anim_fcurve_elements for an armature up to the bone loop (lines 421-468):
\* boneCheckList is built and culled, the object's curves are written
export_object ==
    /\ d_pc = "object"
    /\ boneCheckList' = BoneCheckList(d_arm)
    /\ LET out == prep_node(-1, [name |-> "Armature", row |-> 0, child |-> 0],
                            d_arm.objFcurves, d_arm)
       IN  /\ d_lines' = out.lines
           /\ d_src' = out.src
    /\ d_pc' = "bones"
    /\ UNCHANGED <<d_arm, d_bone, d_read, node, nodeNames, anim_nodes>>
    /\ UNCHANGED notDoc

\* one pass of the bone loop (lines 470-490)
export_bone ==
    /\ d_pc = "bones"
    /\ LET fcBoneData == boneCheckList[d_bone + 1]
           bone_info == get_node_info(d_arm.bones[fcBoneData.bone + 1])
           out == prep_node(fcBoneData.bone, bone_info, fcBoneData.fc_list, d_arm)
       IN  IF fcBoneData.animated /\ bone_frames(fcBoneData, d_arm) # {}
           THEN /\ d_lines' = d_lines \o out.lines
                /\ d_src' = d_src \o out.src
           ELSE /\ d_lines' = Append(d_lines, placeholder_line(bone_info))
                /\ d_src' = Append(d_src, [kind |-> "placeholder", who |-> fcBoneData.bone,
                                          i |-> -1, array_index |-> -1])
    /\ d_bone' = d_bone + 1
    /\ d_pc' = IF d_bone + 1 = Len(boneCheckList) THEN "load" ELSE "bones"
    /\ UNCHANGED <<d_arm, boneCheckList, d_read, node, nodeNames, anim_nodes>>
    /\ UNCHANGED notDoc

\* a document that was not written by this exporter is opened
foreign_document ==
    /\ d_pc = "foreign"
    /\ \E doc \in ForeignDocs :
          /\ d_lines' = doc
          /\ d_src' = [q \in 1..Len(doc) |->
                          [kind |-> "foreign", who |-> -1, i |-> -1, array_index |-> -1]]
    /\ d_pc' = "load"
    /\ UNCHANGED <<d_arm, boneCheckList, d_bone, d_read, node, nodeNames, anim_nodes>>
    /\ UNCHANGED notDoc

\* one pass of load's line loop (lines 692-707); an "animData {" line is
\* taken with its block
load_line ==
    /\ d_pc = "load"
    /\ d_read < Len(d_lines)
    /\ LET fl == d_lines[d_read + 1]
           n == get_node_elements(fl)
       IN  IF fl[1] = W("anim")
           THEN /\ node' = n
                /\ IF n # PyNone /\ \A q \in 1..Len(nodeNames) : nodeNames[q] # n.name
                   THEN /\ nodeNames' = Append(nodeNames, n.name)
                        /\ anim_nodes' = Append(anim_nodes, <<>>)
                   ELSE UNCHANGED <<nodeNames, anim_nodes>>
           ELSE /\ anim_nodes' = pack_anim_fcurves(node, nodeNames, anim_nodes)
                /\ UNCHANGED <<node, nodeNames>>
    /\ d_read' = d_read + 1
    /\ d_pc' = IF d_read + 1 = Len(d_lines) THEN "write" ELSE "load"
    /\ UNCHANGED <<d_arm, boneCheckList, d_bone, d_lines, d_src>>
    /\ UNCHANGED notDoc

\* write_animation's loop over anim_nodes (lines 532-546) reaches the end
write_animation ==
    /\ d_pc = "write"
    /\ \A q \in 1..Len(anim_nodes) : anim_nodes[q] # <<>>
    /\ d_pc' = "done"
    /\ UNCHANGED <<d_arm, boneCheckList, d_bone, d_lines, d_src, d_read,
                   node, nodeNames, anim_nodes>>
    /\ UNCHANGED notDoc

\* write_animation asks an entry of anim_nodes that is still the empty list
\* for its name (line 537)
write_animation_AttributeError ==
    /\ d_pc = "write"
    /\ \E q \in 1..Len(anim_nodes) : anim_nodes[q] = <<>>
    /\ d_pc' = "AttributeError"
    /\ UNCHANGED <<d_arm, boneCheckList, d_bone, d_lines, d_src, d_read,
                   node, nodeNames, anim_nodes>>
    /\ UNCHANGED notDoc

NextDoc ==
    \/ export_object
    \/ export_bone
    \/ foreign_document
    \/ load_line
    \/ write_animation
    \/ write_animation_AttributeError

SpecDoc == InitDoc /\ [][NextDoc]_vars

\* the loader has just gone through the anim line of a bare placeholder
PlaceholderRead == d_read >= 1 /\ d_src[d_read].kind = "placeholder"

\* C7: a bare line `anim <name> <row> <childCount> 0;` written for an
\* unanimated bone is read as a present but unanimated node: no channel and no
\* property come of it, no node is registered under a name taken from a
\* numeric field, and the decoding of the document runs to completion
C7_BareLineIsUnanimatedNode ==
    /\ PlaceholderRead => node = PyNone
    /\ \A q \in 1..Len(nodeNames) : nodeNames[q].t # "int"
    /\ d_pc # "AttributeError"

\* the written lines of bone i of the exported armature
BoneLines(i, kind) ==
    {q \in 1..Len(d_src) : d_src[q].who = i /\ d_src[q].kind = kind}

\* the index of the last animated bone, -1 when no bone is animated
LastAnimated ==
    LET marked == {i \in 0..Len(d_arm.bones) - 1 : MarkedAnimated(d_arm.bones[i + 1], d_arm)}
    IN  IF marked = {} THEN -1
        ELSE CHOOSE i \in marked : \A h \in marked : h <= i

\* bone i has no curves, is excluded as non-deform, or has no key in range
OwesPlaceholder(i) ==
    \/ ~MarkedAnimated(d_arm.bones[i + 1], d_arm)
    \/ \A g \in 1..5 :
          export_get_frames(d_arm.bones[i + 1].fc_list[g], d_arm.use_time_range,
                            d_arm.start_time, d_arm.end_time) = {}

\* C8: in an armature export the object's channels come first and the bones
\* follow in bone-index order; every bone up to the last animated bone emits
\* either its channel blocks or exactly one bare placeholder line (the
\* placeholder when it has no curves, is excluded as non-deform or has no key
\* in the time range), and no bone after the last animated bone emits a line
C8_BonesInOrderWithPlaceholders ==
    (d_pc \in {"load", "write", "done", "AttributeError"} /\ d_arm # <<>>) =>
        /\ \A q1, q2 \in 1..Len(d_src) : q1 < q2 => d_src[q1].who <= d_src[q2].who
        /\ \A i \in 0..Len(d_arm.bones) - 1 :
              IF i <= LastAnimated
              THEN /\ \/ BoneLines(i, "channel") # {} /\ BoneLines(i, "placeholder") = {}
                      \/ BoneLines(i, "channel") = {}
                           /\ Cardinality(BoneLines(i, "placeholder")) = 1
                   /\ OwesPlaceholder(i) <=> BoneLines(i, "placeholder") # {}
              ELSE BoneLines(i, "channel") \cup BoneLines(i, "placeholder") = {}

\* the loader has just gone through a full declaration of translate, rotate
\* or scale
FullDeclarationRead ==
    /\ d_read >= 1
    /\ d_lines[d_read][1] = W("anim")
    /\ Len(d_lines[d_read]) = 8
    /\ d_lines[d_read][2].k = "a"
    /\ d_lines[d_read][2].s \in {"translate", "rotate", "scale"}

\* C9: a full declaration `anim <attrFull> <attrShort> <nodeName> <row>
\* <childCount> <index>;` of translate, rotate or scale is read as a node
\* with that name, child count and index, the host property of the attribute
\* and component 0, 1, 2 for the letter X, Y, Z; a declaration the writer
\* wrote for component i of 0..2 is read back as component i
C9_DeclarationRead ==
    FullDeclarationRead =>
        LET l == d_lines[d_read]
        IN  /\ node.name = PyStr(l[4].s)
            /\ node.children = PyInt(l[6].n)
            /\ node.id = PyInt(l[7].n)
            /\ l[2].s = "translate" => node.property = PyStr("location")
            /\ l[2].s = "rotate" => node.property = PyStr("rotation_euler")
            /\ l[2].s = "scale" => node.property = PyStr("scale")
            /\ l[2].n = 88 => node.array_index = 0
            /\ l[2].n = 89 => node.array_index = 1
            /\ l[2].n = 90 => node.array_index = 2
            /\ (d_src[d_read].kind = "channel" /\ d_src[d_read].array_index \in 0..2)
                  => node.array_index = d_src[d_read].array_index

\* the scale Y curve of a bone with two children, written after another
\* curve of the armature, was read back
C9_Witness ==
    /\ FullDeclarationRead
    /\ d_src[d_read].kind = "channel"
    /\ d_src[d_read].who = 0
    /\ d_src[d_read].i = 3
    /\ d_src[d_read].array_index = 1
    /\ node.name = PyStr("Root")
    /\ node.property = PyStr("scale")
    /\ node.array_index = 1
    /\ node.children = PyInt(2)
    /\ d_read > 1

\* C10: the channel letter of an anim declaration is X, Y, Z for components
\* 0, 1, 2 of a group that is not a quaternion group and W, X, Y, Z for
\* components 0, 1, 2, 3 of a quaternion group
C10_ChannelLetter ==
    \A q \in 1..Len(d_src) :
        d_src[q].kind = "channel" =>
            d_lines[q][2].n = (IF d_src[q].i = 2 THEN 87 ELSE 88) + d_src[q].array_index

-----------------------------------------------------------------------------
(* Further claims about key lines *)

\* an exported line is under the cursor, with the point it was written for
ExportedLineWritten == lineSrc = "export" /\ kp # NoPoint

\* C11: the tangent-lock field of a written key line is 0 exactly when that
\* key's own left or right handle type is free and 1 otherwise, whatever keys
\* were written before it in the channel
C11_TanLockOfOwnKey ==
    ExportedLineWritten =>
        keyLine[5] = I(IF kp.handle_left_type = "FREE" \/ kp.handle_right_type = "FREE"
                       THEN 0 ELSE 1)

\* C12: no key line the exporter writes has step as its in-tangent kind
C12_NoStepInTangent ==
    ExportedLineWritten => keyLine[3] # W("step")


-----------------------------------------------------------------------------
(* Import of one channel: import_anim.setup_fcurve and write_keyframes *)

\* the names anim_utils defines at module level (anim_utils.py, lines 4-162)
AnimUtilsNames ==
    {"UNITS", "ASCII_X", "ANIM_TIME_UNITS", "B3D_TIME_UNITS", "ANIM_LINEAR_UNITS",
     "B3D_LINEAR_UNITS", "ANIM_ANGULAR_UNITS", "B3D_ANGULAR_UNITS",
     "ANIM_CYCLES_TYPE", "B3D_CYCLES_TYPE", "ANIM_UNIT_TYPE", "B3D_UNIT_TYPE",
     "ANIM_TANGENT_TYPE", "ANIM_ATTR_NAMES", "B3D_ATTR_NAMES",
     "FCURVE_PATHS_NAME_TO_ID", "FCURVE_PATHS_ID_TO_NAME", "units_convertor",
     "linear_converter", "angular_converter", "anim_unit_converter", "dupe_obj",
     "offset_rotation", "bone_calculate_parentSpace", "convert_axes"}

\* anim_utils.B3D_CYCLES_TYPE
CycleNames == {"cycle", "cycleRelative", "oscillate", "linear", "constant"}

B3D_CYCLES_TYPE(name) ==
    CASE name = "cycle"         -> "REPEAT"
      [] name = "cycleRelative" -> "REPEAT_OFFSET"
      [] name = "oscillate"     -> "MIRROR"
      [] name = "linear"        -> "NONE"
      [] name = "constant"      -> "NONE"

\* anim_utils.ANIM_UNIT_TYPE and its inverse B3D_UNIT_TYPE
UnitTypes == {"TIME", "LENGTH", "ROTATION", "NONE"}

ANIM_UNIT_TYPE(u) ==
    CASE u = "TIME"     -> "time"
      [] u = "LENGTH"   -> "linear"
      [] u = "ROTATION" -> "angular"
      [] u = "NONE"     -> "unitless"

OutputNames == {ANIM_UNIT_TYPE(u) : u \in UnitTypes}

B3D_UNIT_TYPE(name) == CHOOSE u \in UnitTypes : ANIM_UNIT_TYPE(u) = name

\* whether anim_unit_converter returns (lines 119-127): its three table
\* lookups and the two UNITS lookups of units_convertor succeed
UnitConverterOk(output, linearUnit, angularUnit) ==
    /\ linearUnit \in LinearUnitNames
    /\ angularUnit \in AngularUnitNames
    /\ output \in OutputNames
    /\ B3D_LINEAR_UNITS(linearUnit) \in UnitNames
    /\ B3D_ANGULAR_UNITS(angularUnit) \in UnitNames

\* anim_unit_converter: fc_unit and the factor of unit_convert[fc_unit], as a
\* fraction (1 where unit_convert has no such key)
anim_unit_converter(output, linearUnit, angularUnit) ==
    LET fc_unit == B3D_UNIT_TYPE(output)
    IN  [fc_unit |-> fc_unit,
         LENGTH |-> units_convertor(B3D_LINEAR_UNITS(linearUnit), "METERS"),
         ROTATION |-> units_convertor(B3D_ANGULAR_UNITS(angularUnit), "RADIANS")]

\* a curve as action.fcurves.new creates it
NewFCurve == [extrapolation |-> "CONSTANT", modifiers |-> <<>>, keyframe_points |-> <<>>]

\* a modifier as fc.modifiers.new('CYCLES') creates it
NewCycles == [mode_before |-> "NONE", mode_after |-> "NONE"]

\* the pre/post infinity names the model draws: two extrapolations, one cycle
\* and one name outside the vocabulary
InfinityNames == {"constant", "linear", "cycle", "hold"}

\* the tangent kinds of a key the model draws, as <<tan_in, tan_out>>
ChannelKeyKinds ==
    {<<"linear", "linear">>, <<"fixed", "spline">>, <<"auto", "step">>,
     <<"bogus", "linear">>}

\* the keys of a channel: n keys at times 1..n with value 0.01
ChannelKeySeqs ==
    UNION { [1..n -> {AnimKey(t * One, One \div 100, k[1], k[2], 1, 0, 0) :
                        t \in 1..MaxKeys, k \in ChannelKeyKinds}] : n \in 0..MaxKeys }

ChannelKeys ==
    {ks \in ChannelKeySeqs : \A j \in 1..Len(ks) : ks[j].time = j * One}

\* the channels read from a document
ANIM_FCurves ==
    [node : [property : {"location", "scale"}],
     settings : [preInfinity : InfinityNames, postInfinity : InfinityNames,
                 output : {"linear", "angular", "unitless", "length"}],
     keys : ChannelKeys]

\* the settings write_keyframes gets: the header's units and the operator options
ChannelSettings ==
    [linearUnit : {"cm", "mi", "yd"}, angularUnit : {"deg", "grad"},
     apply_unit_linear : BOOLEAN, axis_transform : BOOLEAN]

InitChannel ==
    /\ ch_pc = "setup"
    /\ anim_fc \in ANIM_FCurves
    /\ ch_set \in ChannelSettings
    /\ ch_fc = NewFCurve
    /\ ch_i = 0
    /\ KeysIdle
    /\ HeaderIdle
    /\ CompleteIdle
    /\ SpaceIdle
    /\ DocIdle
    /\ AnimDataIdle
    /\ LoadIdle
    /\ NodesIdle
    /\ PassIdle
    /\ UnitsIdle
    /\ RangeIdle

ExtrTypes == {"constant", "linear"}

\* upper() of the two extrapolation names
Upper(name) == IF name = "constant" THEN "CONSTANT" ELSE "LINEAR"

\* the curve after lines 289-290
AfterExtrapolation(c, a) ==
    IF a.settings.postInfinity \in ExtrTypes
    THEN [c EXCEPT !.extrapolation = Upper(a.settings.postInfinity)]
    ELSE c

IsCyclic(a) ==
    a.settings.postInfinity \notin ExtrTypes \/ a.settings.preInfinity \notin ExtrTypes

\* setup_fcurve returning (lines 284-298)
setup_fcurve ==
    /\ ch_pc = "setup"
    /\ IsCyclic(anim_fc) =>
          /\ anim_fc.settings.preInfinity \in CycleNames
          /\ anim_fc.settings.postInfinity \in CycleNames
    /\ ch_fc' =
         LET c == AfterExtrapolation(ch_fc, anim_fc)
         IN  IF IsCyclic(anim_fc)
             THEN [c EXCEPT !.extrapolation = "CONSTANT",
                            !.modifiers = Append(@,
                                [mode_before |-> B3D_CYCLES_TYPE(anim_fc.settings.preInfinity),
                                 mode_after |-> B3D_CYCLES_TYPE(anim_fc.settings.postInfinity)])]
             ELSE c
    /\ ch_pc' = "write"
    /\ UNCHANGED <<anim_fc, ch_set, ch_i>>
    /\ UNCHANGED notChannel

\* setup_fcurve when a B3D_CYCLES_TYPE lookup raises KeyError (lines 296-297):
\* the extrapolation and the new modifier have been written by then
setup_fcurve_KeyError ==
    /\ ch_pc = "setup"
    /\ IsCyclic(anim_fc)
    /\ \/ anim_fc.settings.preInfinity \notin CycleNames
       \/ anim_fc.settings.postInfinity \notin CycleNames
    /\ ch_fc' =
         [AfterExtrapolation(ch_fc, anim_fc) EXCEPT
            !.extrapolation = "CONSTANT",
            !.modifiers = Append(@,
                IF anim_fc.settings.preInfinity \in CycleNames
                THEN [NewCycles EXCEPT
                        !.mode_before = B3D_CYCLES_TYPE(anim_fc.settings.preInfinity)]
                ELSE NewCycles)]
    /\ ch_pc' = "KeyError"
    /\ UNCHANGED <<anim_fc, ch_set, ch_i>>
    /\ UNCHANGED notChannel

\* write_keyframes up to its loop: anim_unit_converter returns (line 470)
write_keyframes ==
    /\ ch_pc = "write"
    /\ UnitConverterOk(anim_fc.settings.output, ch_set.linearUnit, ch_set.angularUnit)
    /\ ch_pc' = "keys"
    /\ UNCHANGED <<anim_fc, ch_set, ch_fc, ch_i>>
    /\ UNCHANGED notChannel

\* write_keyframes when anim_unit_converter raises KeyError
write_keyframes_KeyError ==
    /\ ch_pc = "write"
    /\ ~UnitConverterOk(anim_fc.settings.output, ch_set.linearUnit, ch_set.angularUnit)
    /\ ch_pc' = "KeyError"
    /\ UNCHANGED <<anim_fc, ch_set, ch_fc, ch_i>>
    /\ UNCHANGED notChannel

\* the value of key i after lines 475-477
ConvertedValue(a, set, i) ==
    LET uc == anim_unit_converter(a.settings.output, set.linearUnit, set.angularUnit)
        v  == a.keys[i].value
    IN  IF /\ ~set.axis_transform
           /\ uc.fc_unit \in {"LENGTH", "ROTATION"}
           /\ a.node.property # "scale"
           /\ ~(~set.apply_unit_linear /\ uc.fc_unit = "LENGTH")
        THEN LET conv == IF uc.fc_unit = "LENGTH" THEN uc.LENGTH ELSE uc.ROTATION
             IN  RoundDiv(v * conv[1], conv[2])
        ELSE v

\* the anim_utils table the loop body reads first for key i (lines 486-495):
\* B3D_INTERP_TYPE when the key and the next one are connected by a step or
\* a linear tangent, B3D_TANGENT_TYPE otherwise (also after the IndexError of
\* the last key)
TableRead(a, i) ==
    IF /\ i + 1 <= Len(a.keys)
       /\ a.keys[i].tan_out = a.keys[i + 1].tan_in
       /\ a.keys[i].tan_out \in {"step", "linear"}
    THEN "B3D_INTERP_TYPE"
    ELSE "B3D_TANGENT_TYPE"

\* one iteration of write_keyframes' loop (lines 472-495): the value is
\* converted, the point inserted, and the table read is not an attribute of
\* anim_utils, which raises AttributeError
write_keyframes_AttributeError ==
    /\ ch_pc = "keys"
    /\ ch_i < Len(anim_fc.keys)
    /\ TableRead(anim_fc, ch_i + 1) \notin AnimUtilsNames
    /\ LET v == ConvertedValue(anim_fc, ch_set, ch_i + 1)
       IN  /\ anim_fc' = [anim_fc EXCEPT !.keys[ch_i + 1].value = v]
           /\ ch_fc' = [ch_fc EXCEPT !.keyframe_points =
                          Append(@, InsertedPoint(anim_fc.keys[ch_i + 1].time, v))]
    /\ ch_i' = ch_i + 1
    /\ ch_pc' = "AttributeError"
    /\ UNCHANGED ch_set
    /\ UNCHANGED notChannel

\* the end of write_keyframes' loop and fc.update() (line 501)
write_keyframes_end ==
    /\ ch_pc = "keys"
    /\ ch_i = Len(anim_fc.keys)
    /\ ch_pc' = "done"
    /\ UNCHANGED <<anim_fc, ch_set, ch_fc, ch_i>>
    /\ UNCHANGED notChannel

NextChannel ==
    \/ setup_fcurve
    \/ setup_fcurve_KeyError
    \/ write_keyframes
    \/ write_keyframes_KeyError
    \/ write_keyframes_AttributeError
    \/ write_keyframes_end

SpecChannel == InitChannel /\ [][NextChannel]_vars

\* the channel's keys carry tangent kinds of the format only
FormatKindsOnly ==
    \A j \in 1..Len(anim_fc.keys) :
        anim_fc.keys[j].tan_in \in TangentKinds /\ anim_fc.keys[j].tan_out \in TangentKinds

\* C13: the tangent-kind mapping is closed in both directions; on read, the
\* keys of an imported channel whose tangent kinds are all kinds of the format
\* are written without meeting an undefined mapping
C13_ReadMappingDefined ==
    (ch_i > 0 /\ FormatKindsOnly) => ch_pc # "AttributeError"

-----------------------------------------------------------------------------
(* One animData block: export_anim.anim_animData_elements *)

\* anim_utils.ANIM_CYCLES_TYPE
CycleModes == {"REPEAT", "REPEAT_OFFSET", "MIRROR", "NONE"}

ANIM_CYCLES_TYPE(mode) ==
    CASE mode = "REPEAT"        -> "cycle"
      [] mode = "REPEAT_OFFSET" -> "cycleRelative"
      [] mode = "MIRROR"        -> "oscillate"
      [] mode = "NONE"          -> "None"

\* the modifier stacks the model draws; the host lets a CYCLES modifier only
\* be the first of a stack
Modifier(type, before, after) == [type |-> type, mode_before |-> before, mode_after |-> after]

ModifierStacks ==
    {<<>>, <<Modifier("NOISE", "NONE", "NONE")>>,
     <<Modifier("CYCLES", "REPEAT", "MIRROR"), Modifier("NOISE", "NONE", "NONE")>>}
    \cup {<<Modifier("CYCLES", b, a)>> : b \in CycleModes, a \in CycleModes}

\* the handle types and interpolation of the points of a block
BlockPointKinds ==
    {p \in KeyframePoints :
        /\ p.dl = <<One, 0>> /\ p.dr = <<-One, One>>
        /\ <<p.handle_left_type, p.handle_right_type>> \in
              {<<"ALIGNED", "ALIGNED">>, <<"FREE", "AUTO">>, <<"AUTO_CLAMPED", "VECTOR">>}
        /\ p.interpolation \in {"BEZIER", "LINEAR"}}

\* the keyframe points of a curve, in time order
BlockPoints ==
    {ps \in UNION { [1..n -> BlockPointKinds] : n \in 0..MaxKeys } :
        \A j \in 1..Len(ps) - 1 : ps[j].co[1] < ps[j + 1].co[1]}

BlockCurves ==
    [extrapolation : {"CONSTANT", "LINEAR"}, modifiers : ModifierStacks,
     keyframe_points : BlockPoints]

BlockSettings ==
    [fc_path : {"location", "rotation_quaternion", "scale"},
     angularUnit : {"deg"},
     use_time_range : BOOLEAN, start_time : {0}, end_time : {2},
     length_unit : {"METERS"}, system_rotation : {"DEGREES"}]

\* node.bl_rna.properties[fc_path].unit, and ROTATION for a quaternion path
\* (lines 198-201)
fc_unit_type(fc_path) ==
    CASE fc_path = "rotation_quaternion" -> "ROTATION"
      [] fc_path = "rotation_euler"      -> "ROTATION"
      [] fc_path = "location"            -> "LENGTH"
      [] fc_path = "scale"               -> "NONE"

Lower(x) == IF x = "CONSTANT" THEN "constant" ELSE "linear"

\* the first CYCLES modifier of the stack, if any (lines 210-214)
CyclesOf(mods) ==
    LET S == {j \in 1..Len(mods) : mods[j].type = "CYCLES"}
    IN  IF S = {} THEN <<>>
        ELSE << mods[CHOOSE j \in S : \A k \in S : j <= k] >>

\* dt_preInf with the after-mode read for both sides
dt_preInf_after(c) ==
    LET cy == CyclesOf(c.modifiers)
    IN  IF cy # <<>> /\ cy[1].mode_after # "NONE"
        THEN ANIM_CYCLES_TYPE(cy[1].mode_after)
        ELSE Lower(c.extrapolation)

\* dt_preInf and dt_postInf (lines 207-214)
dt_preInf(c) ==
    LET cy == CyclesOf(c.modifiers)
    IN  IF cy # <<>> /\ cy[1].mode_before # "NONE"
        THEN ANIM_CYCLES_TYPE(cy[1].mode_before)
        ELSE Lower(c.extrapolation)

dt_postInf(c) ==
    LET cy == CyclesOf(c.modifiers)
    IN  IF cy # <<>> /\ cy[1].mode_after # "NONE"
        THEN ANIM_CYCLES_TYPE(cy[1].mode_after)
        ELSE Lower(c.extrapolation)

\* the test of line 221: some point with an aligned handle
AnyAligned(c) ==
    \E j \in 1..Len(c.keyframe_points) :
        \/ c.keyframe_points[j].handle_left_type = "ALIGNED"
        \/ c.keyframe_points[j].handle_right_type = "ALIGNED"

\* the settings anim_keys_elements runs with
BlockKeySettings(set) ==
    [use_time_range |-> set.use_time_range, start_time |-> set.start_time,
     end_time |-> set.end_time,
     dt_output |-> ANIM_UNIT_TYPE(fc_unit_type(set.fc_path)),
     length_unit |-> set.length_unit, system_rotation |-> set.system_rotation]

\* the key lines anim_keys_elements writes for the points from j on, with
\* prev_interp and tan_lock as the loop carries them (lines 143-186)
RECURSIVE KeyLinesFrom(_, _, _, _, _)
KeyLinesFrom(set, ps, j, prev, lock) ==
    IF j > Len(ps) THEN <<>>
    ELSE IF ~InTimeRange(set, ps[j]) THEN KeyLinesFrom(set, ps, j + 1, prev, lock)
    ELSE << KeyLineOf(set, ps[j], prev, lock) >>
         \o KeyLinesFrom(set, ps, j + 1, ps[j].interpolation, KeyTanLock(ps[j], lock))

BlockKeyLines(c, set) == KeyLinesFrom(BlockKeySettings(set), c.keyframe_points, 1, "None", 1)

\* the lines of the block (lines 194-229 and 139, 188)
BlockLines(c, set) ==
    << AnimDataLine,
       << W("input"), W("time"), W(";") >>,
       << W("output"), W(ANIM_UNIT_TYPE(fc_unit_type(set.fc_path))), W(";") >>,
       << W("weighted"), I(1), W(";") >> >>
    \o (IF AnyAligned(c) THEN << << W("tangentAngleUnit"), W(set.angularUnit), W(";") >> >>
        ELSE <<>>)
    \o << << W("preInfinity"), W(dt_preInf(c)), W(";") >>,
          << W("postInfinity"), W(dt_postInf(c)), W(";") >>,
          << W("keys"), W("{") >> >>
    \o BlockKeyLines(c, set)
    \o << << W("}") >>, << W("}") >> >>

InitAnimData ==
    /\ ad_pc = "write"
    /\ ad_fc \in BlockCurves
    /\ ad_set \in BlockSettings
    /\ ad_lines = <<>>
    /\ KeysIdle
    /\ HeaderIdle
    /\ CompleteIdle
    /\ SpaceIdle
    /\ DocIdle
    /\ ChannelIdle
    /\ LoadIdle
    /\ NodesIdle
    /\ PassIdle
    /\ UnitsIdle
    /\ RangeIdle

anim_animData_elements ==
    /\ ad_pc = "write"
    /\ ad_lines' = BlockLines(ad_fc, ad_set)
    /\ ad_pc' = "written"
    /\ UNCHANGED <<ad_fc, ad_set>>
    /\ UNCHANGED notAnimData

NextAnimData == anim_animData_elements

SpecAnimData == InitAnimData /\ [][NextAnimData]_vars

\* the lines of the written block that start with a given word
LinesOf(word) == {j \in 1..Len(ad_lines) : ad_lines[j][1] = W(word)}

\* the key lines of the written block: those between `keys {` and its `}`
WrittenKeyLines ==
    {j \in 1..Len(ad_lines) :
        /\ \E k \in LinesOf("keys") : k < j
        /\ ad_lines[j] # << W("}") >>}

\* C14: a written block has a tangentAngleUnit line only if one of its key
\* lines has fixed as in- or out-tangent kind
C14_AngleUnitOnlyWithFixedKey ==
    (ad_pc = "written" /\ LinesOf("tangentAngleUnit") # {}) =>
        \E j \in WrittenKeyLines :
            ad_lines[j][3] = W("fixed") \/ ad_lines[j][4] = W("fixed")

\* the word a single-word line of the written block carries
WordOfLine(word) == ad_lines[CHOOSE j \in LinesOf(word) : TRUE][2].s

\* the curve's cyclic modifier, if it has one
CyclicModifiers == {j \in 1..Len(ad_fc.modifiers) : ad_fc.modifiers[j].type = "CYCLES"}

\* the cycle kind of a modifier mode
CycleKind(mode) ==
    CASE mode = "REPEAT"        -> "cycle"
      [] mode = "REPEAT_OFFSET" -> "cycleRelative"
      [] mode = "MIRROR"        -> "oscillate"

ExtrapolationName == IF ad_fc.extrapolation = "LINEAR" THEN "linear" ELSE "constant"

\* C15: preInfinity is the cycle kind of the cyclic modifier's before-mode when
\* that mode is set and the curve's extrapolation otherwise; postInfinity
\* likewise from the after-mode; each side is decided by its own mode only
C15_InfinityPerSide ==
    ad_pc = "written" =>
        /\ Cardinality(LinesOf("preInfinity")) = 1
        /\ Cardinality(LinesOf("postInfinity")) = 1
        /\ IF CyclicModifiers = {}
           THEN /\ WordOfLine("preInfinity") = ExtrapolationName
                /\ WordOfLine("postInfinity") = ExtrapolationName
           ELSE LET mod == ad_fc.modifiers[CHOOSE j \in CyclicModifiers : TRUE]
                IN  /\ WordOfLine("preInfinity") =
                          IF mod.mode_before # "NONE" THEN CycleKind(mod.mode_before)
                          ELSE ExtrapolationName
                    /\ WordOfLine("postInfinity") =
                          IF mod.mode_after # "NONE" THEN CycleKind(mod.mode_after)
                          ELSE ExtrapolationName

\* a linear curve that repeats with offset before its keys and is not cyclic
\* after them is written cycleRelative / linear
C15_Witness ==
    /\ ad_pc = "written"
    /\ ad_fc.extrapolation = "LINEAR"
    /\ CyclicModifiers # {}
    /\ ad_fc.modifiers[1].mode_before = "REPEAT_OFFSET"
    /\ ad_fc.modifiers[1].mode_after = "NONE"
    /\ WordOfLine("preInfinity") = "cycleRelative"
    /\ WordOfLine("postInfinity") = "linear"

-----------------------------------------------------------------------------
(* Further claims about the written document *)

\* the anim lines written for a node from its rotation_euler (1) and
\* rotation_quaternion (2) groups
RotateLines(who) ==
    {q \in 1..Len(d_src) :
        d_src[q].kind = "channel" /\ d_src[q].who = who /\ d_src[q].i \in {1, 2}}

\* C16: the rotate channels written for a node come from only one of its two
\* rotation groups, so that no node gets the same rotate declaration twice
C16_RotationNotMixed ==
    \A q \in 1..Len(d_src) : \A r \in 1..Len(d_src) :
        (q \in RotateLines(d_src[q].who) /\ r \in RotateLines(d_src[q].who)) =>
            /\ d_src[q].i = d_src[r].i
            /\ (q # r => d_lines[q][2] # d_lines[r][2])

-----------------------------------------------------------------------------
(* Malformed numeric tokens *)

\* a key line with both tangents fixed, and an anim declaration
FullKeyLine ==
    << I(1), F(45 * Micro), W("fixed"), W("fixed"), I(1), I(0), I(0),
       F(15 * Micro), I(2), F(-10 * Micro), F(1500000), W(";") >>

FullDeclaration ==
    << W("anim"), AttrFull("translate", 88), AttrShort("translate", 88), W("Root"),
       I(0), I(1), I(2), W(";") >>

\* the positions of a key line that hold floats and flags, and the integer
\* positions of a declaration
KeyFloatPositions == {1, 2, 8, 9, 10, 11}
KeyFlagPositions  == {5, 6, 7}
DeclarationIntegerPositions == {5, 6, 7}

Malformed(line, q) == [line EXCEPT ![q] = W("x")]

\* C17: a document with one malformed numeric token is read to the end: a
\* malformed float of a key line is read as NaN, a malformed flag of a key
\* line and a malformed integer of a declaration as an absent value, and a
\* header with a malformed integer is read without an exception
C17_MalformedTokenRead ==
    /\ \A q \in KeyFloatPositions :
          /\ KeyOfLine(Malformed(FullKeyLine, q)).ok = "ok"
          /\ read_prop_keyframe(Malformed(FullKeyLine, q))[q] = PyNaN
    /\ \A q \in KeyFlagPositions :
          /\ KeyOfLine(Malformed(FullKeyLine, q)).ok = "ok"
          /\ getInt(Malformed(FullKeyLine, q)[q]) = PyNone
    /\ \A q \in DeclarationIntegerPositions :
          /\ get_node_elements(Malformed(FullDeclaration, q)) # PyNone
          /\ read_prop_anim(Malformed(FullDeclaration, q)).props[q - 1] = PyNone
    /\ h_pc # "ValueError"

-----------------------------------------------------------------------------
(* Names outside the closed vocabularies *)

UnknownInfinity ==
    \/ anim_fc.settings.preInfinity \notin CycleNames
    \/ anim_fc.settings.postInfinity \notin CycleNames

UnknownUnit ==
    \/ anim_fc.settings.output \notin OutputNames
    \/ ch_set.linearUnit \notin LinearUnitNames
    \/ ch_set.angularUnit \notin AngularUnitNames

UnknownTangent(j) ==
    \/ anim_fc.keys[j].tan_in \notin TangentKinds
    \/ anim_fc.keys[j].tan_out \notin TangentKinds

\* C18: a channel with an infinity kind, an output domain, a unit or a tangent
\* kind outside the vocabularies ends in an error, and the curve has then got
\* no setting in place of the unknown name: no cyclic modifier and no
\* extrapolation other than the one a known postInfinity asks for
C18_UnknownNameIsError ==
    /\ (ch_pc # "setup" /\ UnknownInfinity) =>
          /\ ch_pc = "KeyError"
          /\ ch_fc.modifiers = <<>>
          /\ ch_fc.extrapolation =
                IF anim_fc.settings.postInfinity \in ExtrTypes
                THEN Upper(anim_fc.settings.postInfinity)
                ELSE NewFCurve.extrapolation
    /\ (ch_pc \notin {"setup", "write"} /\ UnknownUnit) =>
          /\ ch_pc = "KeyError"
          /\ ch_fc.keyframe_points = <<>>
    /\ (ch_i > 0 /\ UnknownTangent(ch_i)) => ch_pc \in {"KeyError", "AttributeError"}

-----------------------------------------------------------------------------
(* The loader's line loops: import_anim.load, get_animData_elements and
   get_keys_elements over a stream that may end early *)

\* a line as a key of another program writes it
LoadKeyLine ==
    << I(1), F(45 * Micro), W("linear"), W("linear"), I(1), I(0), I(0), W(";") >>

\* a complete animData block
LoadBlock ==
    << AnimDataLine,
       << W("output"), W("linear"), W(";") >>,
       << W("weighted"), I(1), W(";") >>,
       << W("keys"), W("{") >>,
       LoadKeyLine,
       << W("}") >>,
       << W("}") >> >>

LoadDeclaration(name, c) ==
    << W("anim"), AttrFull("translate", c), AttrShort("translate", c), W(name),
       I(0), I(1), I(c - ASCII_X), W(";") >>

\* an anim line with fewer than four fields, for which get_node_elements
\* returns None
ShortDeclaration == << W("anim"), W("Root"), I(0), I(0), W(";") >>

CommentLine == << W("#"), W("end") >>

\* what follows the header in the documents read: declarations each followed
\* by its block, a block before any declaration, a block after a short
\* declaration, and a line that opens nothing
LoadBodies ==
    { << LoadDeclaration("Root", 88) >> \o LoadBlock
         \o << LoadDeclaration(n, 89) >> \o LoadBlock : n \in {"Root", "Arm"} }
    \cup { LoadBlock \o << LoadDeclaration("Root", 88) >> \o LoadBlock,
           << ShortDeclaration >> \o LoadBlock,
           << LoadDeclaration("Root", 88) >> \o LoadBlock \o << CommentLine >> }

\* the documents read: every body and every body cut short at a line
LoadDocs == UNION { { SubSeq(b, 1, n) : n \in 0..Len(b) } : b \in LoadBodies }

InitLoad ==
    /\ l_pc = "header"
    /\ l_file \in {d \in LoadDocs : d # <<>>}
    /\ l_pos = 0
    /\ l_fline = <<>>
    /\ l_node = PyNone
    /\ l_nodeNames = <<>>
    /\ l_anim_nodes = <<>>
    /\ l_props = <<>>
    /\ fc_keys = <<>>
    /\ KeysIdle
    /\ HeaderIdle
    /\ CompleteIdle
    /\ SpaceIdle
    /\ DocIdle
    /\ ChannelIdle
    /\ AnimDataIdle
    /\ NodesIdle
    /\ PassIdle
    /\ UnitsIdle
    /\ RangeIdle

IsAnimLine(line) == line # <<>> /\ line[1] = W("anim")

\* get_header_elements on the lines before the first anim line (lines
\* 179-194): each is read with read_prop_single, which raises IndexError on a
\* line of fewer than two words; the loop ends at the first anim line or at
\* the end of the stream
header_line ==
    /\ l_pc = "header"
    /\ IF l_pos = Len(l_file) \/ IsAnimLine(l_file[l_pos + 1])
       THEN l_pc' = "body" /\ UNCHANGED l_pos
       ELSE IF Len(cleanLine(l_file[l_pos + 1])) < 2
       THEN l_pc' = "IndexError" /\ UNCHANGED l_pos
       ELSE l_pos' = l_pos + 1 /\ UNCHANGED l_pc
    /\ UNCHANGED <<l_file, l_fline, l_node, l_nodeNames, l_anim_nodes, l_props, fc_keys>>
    /\ UNCHANGED notLoad

\* file.readline(): the next line, or the empty string at the end of the stream
readline(file, pos) == IF pos < Len(file) THEN file[pos + 1] ELSE <<>>
Advance(file, pos)  == IF pos < Len(file) THEN pos + 1 ELSE pos

\* load's loop meets an anim line (lines 693-699)
load_anim ==
    /\ l_pc = "body"
    /\ l_pos < Len(l_file)
    /\ IsAnimLine(l_file[l_pos + 1])
    /\ LET n == get_node_elements(l_file[l_pos + 1])
       IN  /\ l_node' = n
           /\ IF n # PyNone /\ \A q \in 1..Len(l_nodeNames) : l_nodeNames[q] # n.name
              THEN /\ l_nodeNames' = Append(l_nodeNames, n.name)
                   /\ l_anim_nodes' = Append(l_anim_nodes, <<>>)
              ELSE UNCHANGED <<l_nodeNames, l_anim_nodes>>
    /\ l_pos' = l_pos + 1
    /\ UNCHANGED <<l_pc, l_file, l_fline, l_props, fc_keys>>
    /\ UNCHANGED notLoad

\* load's loop meets "animData {" (lines 701-704): the next line is read and
\* get_animData_elements starts on it
load_animData ==
    /\ l_pc = "body"
    /\ l_pos < Len(l_file)
    /\ l_file[l_pos + 1] = AnimDataLine
    /\ l_fline' = readline(l_file, l_pos + 1)
    /\ l_pos' = Advance(l_file, l_pos + 1)
    /\ l_props' = <<>>
    /\ fc_keys' = "unbound"
    /\ l_pc' = "animData"
    /\ UNCHANGED <<l_file, l_node, l_nodeNames, l_anim_nodes>>
    /\ UNCHANGED notLoad

\* load's loop passes a line that opens nothing (lines 692-701)
load_skip ==
    /\ l_pc = "body"
    /\ l_pos < Len(l_file)
    /\ ~IsAnimLine(l_file[l_pos + 1])
    /\ l_file[l_pos + 1] # AnimDataLine
    /\ l_pos' = l_pos + 1
    /\ UNCHANGED <<l_pc, l_file, l_fline, l_node, l_nodeNames, l_anim_nodes, l_props, fc_keys>>
    /\ UNCHANGED notLoad

\* load's loop is at the end of the stream: anim_nodes goes to write_animation
\* (lines 708-721)
load_end ==
    /\ l_pc = "body"
    /\ l_pos = Len(l_file)
    /\ l_pc' = "done"
    /\ UNCHANGED <<l_file, l_pos, l_fline, l_node, l_nodeNames, l_anim_nodes, l_props, fc_keys>>
    /\ UNCHANGED notLoad

\* one pass of get_animData_elements' loop on a line that is not "}" (lines
\* 138-148): "keys {" hands the next line to get_keys_elements, any other
\* line is read with read_prop_single, which raises IndexError on a line of
\* fewer than two words, the empty line of the stream's end included
get_animData_elements ==
    /\ l_pc = "animData"
    /\ cleanLine(l_fline) # << W("}") >>
    /\ IF cleanLine(l_fline) = << W("keys"), W("{") >>
       THEN /\ l_fline' = readline(l_file, l_pos)
            /\ l_pos' = Advance(l_file, l_pos)
            /\ fc_keys' = <<>>
            /\ l_pc' = "keys"
            /\ UNCHANGED l_props
       ELSE IF Len(cleanLine(l_fline)) < 2
       THEN /\ l_pc' = "IndexError"
            /\ UNCHANGED <<l_fline, l_pos, l_props, fc_keys>>
       ELSE /\ LET pv == read_prop_single(l_fline)
               IN  l_props' = Append(l_props,
                       << pv[1].s, IF pv[1].s = "weighted"
                                   THEN [t |-> "bool", n |-> IF PyBool(getInt(pv[2])) THEN 1 ELSE 0,
                                         s |-> ""]
                                   ELSE Raw(pv[2]) >>)
            /\ l_fline' = readline(l_file, l_pos)
            /\ l_pos' = Advance(l_file, l_pos)
            /\ UNCHANGED <<l_pc, fc_keys>>
    /\ UNCHANGED <<l_file, l_node, l_nodeNames, l_anim_nodes>>
    /\ UNCHANGED notLoad

\* get_animData_elements returns at "}" (line 150) and load packs the curve
\* (lines 707-708): fc_keys is unbound without a keys block, and
\* pack_anim_fcurves asks node for its property, which None has not
animData_end ==
    /\ l_pc = "animData"
    /\ cleanLine(l_fline) = << W("}") >>
    /\ IF fc_keys = "unbound"
       THEN /\ l_pc' = "UnboundLocalError"
            /\ UNCHANGED l_anim_nodes
       ELSE IF l_node = PyNone
       THEN /\ l_pc' = "AttributeError"
            /\ UNCHANGED l_anim_nodes
       ELSE /\ l_anim_nodes' =
                 pack_anim_fcurves([name |-> l_node.name, property |-> l_node.property,
                                    array_index |-> l_node.array_index,
                                    settings |-> l_props, keys |-> fc_keys],
                                   l_nodeNames, l_anim_nodes)
            /\ l_pc' = "body"
    /\ UNCHANGED <<l_file, l_pos, l_fline, l_node, l_nodeNames, l_props, fc_keys>>
    /\ UNCHANGED notLoad

\* one pass of get_keys_elements' loop (lines 107-131): the key of the line is
\* appended and the next line read; the empty line of the stream's end has no
\* field 2, which raises IndexError
get_keys_loop ==
    /\ l_pc = "keys"
    /\ cleanLine(l_fline) # << W("}") >>
    /\ LET key == KeyOfLine(l_fline)
       IN  IF key.ok = "IndexError"
           THEN /\ l_pc' = "IndexError"
                /\ UNCHANGED <<l_fline, l_pos, fc_keys>>
           ELSE /\ fc_keys' = Append(fc_keys, key)
                /\ l_fline' = readline(l_file, l_pos)
                /\ l_pos' = Advance(l_file, l_pos)
                /\ UNCHANGED l_pc
    /\ UNCHANGED <<l_file, l_node, l_nodeNames, l_anim_nodes, l_props>>
    /\ UNCHANGED notLoad

\* get_keys_elements returns at "}" (line 133) and get_animData_elements reads
\* the next line (line 148)
get_keys_end ==
    /\ l_pc = "keys"
    /\ cleanLine(l_fline) = << W("}") >>
    /\ l_fline' = readline(l_file, l_pos)
    /\ l_pos' = Advance(l_file, l_pos)
    /\ l_pc' = "animData"
    /\ UNCHANGED <<l_file, l_node, l_nodeNames, l_anim_nodes, l_props, fc_keys>>
    /\ UNCHANGED notLoad

NextLoad ==
    \/ header_line
    \/ load_anim
    \/ load_animData
    \/ load_skip
    \/ load_end
    \/ get_animData_elements
    \/ animData_end
    \/ get_keys_loop
    \/ get_keys_end

SpecLoad == InitLoad /\ [][NextLoad]_vars

\* the same with every enabled step of the loader eventually taken
FairLoad == SpecLoad /\ WF_vars(NextLoad)

LoadStopped == l_pc \in {"done", "AttributeError", "IndexError", "UnboundLocalError"}

\* C19: on a block without a declaration before it and on input that ends
\* inside a keys or animData block, decoding stops with the nodes decoded
\* before handed on (the loader gets to its end) instead of an exception
\* leaving load
C19_InconsistencyStopsCleanly ==
    l_pc \notin {"AttributeError", "IndexError", "UnboundLocalError"}

-----------------------------------------------------------------------------
(* write_animation's loop over the nodes of a document (import_anim.py, lines
   525-655), with axis_transform off and one location channel per node *)

\* nodes of one document
MaxNodes == 3

NodeNames == {"Armature", "Root", "Arm", "Stray"}

\* the target objects: an armature named Armature with the bones Root and
\* Arm, with and without a selection, and a mesh of the same name
TargetObjects ==
    [name : {"Armature"}, type : {"ARMATURE"}, bones : {{"Root", "Arm"}},
     selected : {{}, {"Arm"}}, use_selected_bones : BOOLEAN]
    \cup [name : {"Armature"}, type : {"MESH"}, bones : {{}}, selected : {{}},
          use_selected_bones : {FALSE}]

\* anim_nodes as load builds it: node groups with distinct names, each with
\* one channel of no key or one key
NodeGroups ==
    { ns \in UNION { [1..n -> [name : NodeNames, nkeys : {0, 1}]] : n \in 1..MaxNodes } :
        \A a \in 1..Len(ns) : \A b \in 1..Len(ns) : a # b => ns[a].name # ns[b].name }

\* get_posebone_names (lines 270-282)
get_posebone_names(obj) ==
    IF obj.use_selected_bones /\ obj.selected # {} THEN obj.selected ELSE obj.bones

\* pbone_names (lines 525-530)
pbone_names(obj) == IF obj.type = "ARMATURE" THEN get_posebone_names(obj) ELSE {}

\* get_fcDataPath (lines 228-268): the group of the curve, or None
get_fcDataPath(obj, node_name, names, do) ==
    IF obj.name # node_name /\ node_name \in names THEN node_name
    ELSE IF do THEN "Object Transforms"
    ELSE "None"

InitNodes ==
    /\ w_pc = "nodes"
    /\ w_obj \in TargetObjects
    /\ w_nodes \in NodeGroups
    /\ w_i = 0
    /\ doObj = ~(w_obj.type = "ARMATURE" /\ w_obj.use_selected_bones)
    /\ w_curves = <<>>
    /\ KeysIdle
    /\ HeaderIdle
    /\ CompleteIdle
    /\ SpaceIdle
    /\ DocIdle
    /\ ChannelIdle
    /\ AnimDataIdle
    /\ LoadIdle
    /\ PassIdle
    /\ UnitsIdle
    /\ RangeIdle

\* doObj after lines 534-535
DoObjAt(i, do) == do /\ i = 0

\* the curve of the node's channel is created and its keys written (lines
\* 632-653); the first key raises AttributeError in write_keyframes, because
\* of the table TableRead names
NodeWritten(group) ==
    /\ w_curves' = IF group = "None" THEN w_curves
                   ELSE Append(w_curves, [node |-> w_nodes[w_i + 1].name, group |-> group])
    /\ w_pc' = IF group # "None" /\ w_nodes[w_i + 1].nkeys > 0
                  /\ TableRead([keys |-> << AnimKey(One, One, "auto", "auto", 1, 0, 0) >>], 1)
                        \notin AnimUtilsNames
               THEN "AttributeError" ELSE "nodes"
    /\ w_i' = w_i + 1

\* a pass of the loop for a node that is one of pbone_names (lines 537-541)
node_as_bone ==
    /\ w_pc = "nodes"
    /\ w_i < Len(w_nodes)
    /\ w_nodes[w_i + 1].name \in pbone_names(w_obj)
    /\ doObj' = FALSE
    /\ NodeWritten(get_fcDataPath(w_obj, w_nodes[w_i + 1].name, pbone_names(w_obj), FALSE))
    /\ UNCHANGED <<w_obj, w_nodes>>
    /\ UNCHANGED notNodes

\* a pass for a node that is no bone while doObj holds (lines 543-544): it is
\* taken for the object, whatever its name
node_as_object ==
    /\ w_pc = "nodes"
    /\ w_i < Len(w_nodes)
    /\ w_nodes[w_i + 1].name \notin pbone_names(w_obj)
    /\ DoObjAt(w_i, doObj)
    /\ doObj' = TRUE
    /\ NodeWritten(get_fcDataPath(w_obj, w_nodes[w_i + 1].name, pbone_names(w_obj), TRUE))
    /\ UNCHANGED <<w_obj, w_nodes>>
    /\ UNCHANGED notNodes

\* a pass for any other node (lines 545-546)
node_skipped ==
    /\ w_pc = "nodes"
    /\ w_i < Len(w_nodes)
    /\ w_nodes[w_i + 1].name \notin pbone_names(w_obj)
    /\ ~DoObjAt(w_i, doObj)
    /\ doObj' = FALSE
    /\ w_i' = w_i + 1
    /\ UNCHANGED <<w_pc, w_obj, w_nodes, w_curves>>
    /\ UNCHANGED notNodes

\* the loop is through (line 655)
nodes_done ==
    /\ w_pc = "nodes"
    /\ w_i = Len(w_nodes)
    /\ w_pc' = "done"
    /\ UNCHANGED <<w_obj, w_nodes, w_i, doObj, w_curves>>
    /\ UNCHANGED notNodes

NextNodes ==
    \/ node_as_bone
    \/ node_as_object
    \/ node_skipped
    \/ nodes_done

SpecNodes == InitNodes /\ [][NextNodes]_vars

\* the node is the target object or one of the bones the import is for
KnownNode(name) == name = w_obj.name \/ name \in pbone_names(w_obj)

CurvesOf(name) == {q \in 1..Len(w_curves) : w_curves[q].node = name}

\* C20: a node that is neither the target object nor one of its (selected)
\* bones gets no curve, at whatever place of the document it stands, and the
\* import goes on to its end, where the known nodes that can be bound (a bone,
\* or the object as first node) have their curve
C20_StrayNodesSkipped ==
    /\ \A q \in 1..Len(w_curves) : KnownNode(w_curves[q].node)
    /\ w_pc # "AttributeError"
    /\ w_pc = "done" =>
          \A q \in 1..Len(w_nodes) :
              (w_nodes[q].name \in pbone_names(w_obj) /\ w_nodes[q].name # w_obj.name)
                  => CurvesOf(w_nodes[q].name) # {}

-----------------------------------------------------------------------------
(* C21: a conversion factor for every unit of the header vocabulary *)

\* the linear and angular units that have an entry in UNITS
LinearWithFactor  == {n \in LinearUnitNames : B3D_LINEAR_UNITS(n) \in UnitNames}
AngularWithFactor == {n \in AngularUnitNames : B3D_ANGULAR_UNITS(n) \in UnitNames}

\* the factor from a to b is the reciprocal of the factor from b to a
Reciprocal(a, b) ==
    LET f == units_convertor(a, b)
        g == units_convertor(b, a)
    IN  f[1] = g[2] /\ f[2] = g[1]

\* the channel's output domain and the document's units are of the vocabulary
HeaderVocabulary ==
    /\ anim_fc.settings.output \in OutputNames
    /\ ch_set.linearUnit \in LinearUnitNames
    /\ ch_set.angularUnit \in AngularUnitNames

\* C21: for every linear unit mm, cm, m, km, in, ft, mi, every angular unit
\* deg, rad and every output domain, anim_unit_converter returns its
\* converters to metres and radians without failing (write_keyframes goes on
\* to its keys), and the factor from a unit to the reference unit is the
\* reciprocal of the factor back.
C21_EveryUnitConverts ==
    [][ (ch_pc = "write" /\ ch_pc' # "write" /\ HeaderVocabulary) =>
            /\ ch_pc' = "keys"
            /\ Reciprocal(B3D_LINEAR_UNITS(ch_set.linearUnit), "METERS")
            /\ Reciprocal(B3D_ANGULAR_UNITS(ch_set.angularUnit), "RADIANS") ]_vars

-----------------------------------------------------------------------------
(* The conversion pass over one full property group: the two frame loops of
   export_anim.prep_node with offset_transforms, and those of
   import_anim.write_animation with transposeConvert_propArray_to_frameArray
   and offset_transforms *)

\* the key lists the model draws for a channel, as <<time, value>> pairs.
\* Angles are held in degrees whichever unit carries them.
PassKeyLists ==
    { << <<1, 340>>, <<8, 170>>, <<10, 510>> >>,
      << <<1, 0>> >>,
      << <<8, 0>> >>,
      << <<1, 0>>, <<10, 90>> >>,
      << <<1, 100>>, <<1, 100>>, <<10, 200>> >> }

\* key lists of a component that does not turn
ZeroKeyLists == { kl \in PassKeyLists : \A i \in 1..Len(kl) : kl[i][2] = 0 }

\* a keyframe point of an action's curve, with its two handles; the lists
\* with a key at 10 carry free handles, the others automatic ones
PassPoint(kl, i) ==
    LET free == \E k \in 1..Len(kl) : kl[k][1] = 10
    IN  [co |-> kl[i],
         handle_left |-> <<kl[i][1] - 1, kl[i][2] - 5 * i>>,
         handle_right |-> <<kl[i][1] + 1, kl[i][2] + 7 * i>>,
         interpolation |-> "LINEAR",
         handle_left_type |-> IF free THEN "FREE" ELSE "AUTO_CLAMPED",
         handle_right_type |-> IF free THEN "FREE" ELSE "AUTO_CLAMPED"]

\* a key of a channel read from a file
PassKey(kl, i) == AnimKey(kl[i][1], kl[i][2], "linear", "linear", 1, 0, 0)

\* the full groups the model draws: three channels in index order. A
\* rotation group turns about X only.
PassGroups(side, prop) ==
    { [c \in 1..3 |->
          Channel(c - 1, 0,
                  [i \in 1..Len(kls[c]) |->
                      IF side = "export" THEN PassPoint(kls[c], i)
                      ELSE PassKey(kls[c], i)])] :
        kls \in IF prop = "location" THEN [1..3 -> PassKeyLists]
                ELSE { f \in [1..3 -> PassKeyLists] :
                         f[2] \in ZeroKeyLists /\ f[3] \in ZeroKeyLists } }

\* the time and the value of a key on either side
KeyTime(side, k)  == IF side = "export" THEN k.co[1] ELSE k.time
KeyValue(side, k) == IF side = "export" THEN k.co[2] ELSE k.value

\* the first index of keys whose time is fr, 0 if there is none
FirstKeyAt(side, keys, fr) ==
    LET at == {i \in 1..Len(keys) : KeyTime(side, keys[i]) = fr}
    IN  IF at = {} THEN 0 ELSE CHOOSE i \in at : \A j \in at : i <= j

\* fc.evaluate(fr) of a curve with constant extrapolation whose keys
\* interpolate linearly
fcurve_evaluate(fc, fr) ==
    LET ks == fc.keys
        at == FirstKeyAt("export", ks, fr)
        before == {i \in 1..Len(ks) : ks[i].co[1] < fr}
        after  == {i \in 1..Len(ks) : ks[i].co[1] > fr}
        lo == CHOOSE i \in before : \A j \in before : j <= i
        hi == CHOOSE i \in after : \A j \in after : i <= j
    IN  IF at # 0 THEN ks[at].co[2]
        ELSE IF before = {} THEN ks[hi].co[2]
        ELSE IF after = {} THEN ks[lo].co[2]
        ELSE ks[lo].co[2]
             + ((ks[hi].co[2] - ks[lo].co[2]) * (fr - ks[lo].co[1]))
                   \div (ks[hi].co[1] - ks[lo].co[1])

\* import_anim.get_neighbor_keys: the indices of the keys it returns, 0 for None
get_neighbor_keys(afc, frame) ==
    LET later == {i \in 1..Len(afc.keys) : afc.keys[i].time > frame}
        nxt == IF later = {} THEN 0 ELSE CHOOSE i \in later : \A j \in later : i <= j
    IN  IF nxt = 0 THEN <<Len(afc.keys), 0>> ELSE <<nxt - 1, nxt>>

\* whether animkey_create_fill reaches anim_utils.lerp (line 377)
FillNeedsLerp(nb) == nb[1] # 0 /\ nb[2] # 0

\* import_anim.animkey_create_fill where it returns: the index of the key
\* object it hands back, one of the two neighbours (0 for None)
animkey_create_fill(nb) == IF nb[1] = 0 THEN nb[2] ELSE nb[1]

\* lines 402-411: the index in afc.keys of the key object taken for frame fr
FrameKey(afc, fr) ==
    LET at == FirstKeyAt("import", afc.keys, fr)
    IN  IF at # 0 THEN at ELSE animkey_create_fill(get_neighbor_keys(afc, fr))

\* lines 413-415: the value gathered for a key of a location or rotation channel
GatheredValue(set, v) ==
    IF set.prop = "location"
    THEN LET conv == units_convertor(B3D_LINEAR_UNITS(set.linearUnit), "METERS")
         IN  RoundDiv(v * conv[1], conv[2])
    ELSE v

\* the angle in (-180, 180] of a turn
Canon(a) == LET m == a % 360 IN IF m > 180 THEN m - 360 ELSE m

\* the angle of the same turn that lies closest to the reference
Compat(a, ref) ==
    LET cands == {a + 360 * k : k \in -3..3}
    IN  CHOOSE x \in cands : \A y \in cands : Abs(x - ref) <= Abs(y - ref)

\* anim_utils.offset_rotation followed by Matrix.to_euler, for a turn about X
\* and a node rotation about X: without a reference the angles come out in
\* (-180, 180], with one they come out closest to it
to_euler(keys_array, node_rot, ref) ==
    LET turned == <<keys_array[1] + node_rot, keys_array[2], keys_array[3]>>
    IN  IF ref = <<>> THEN [c \in 1..3 |-> Canon(turned[c])]
        ELSE [c \in 1..3 |-> Compat(Canon(turned[c]), ref[c])]

\* what offset_transforms computes for a frame (export lines 69-84, import
\* lines 438-455)
Converted(set, keys_array, ref) ==
    IF set.prop = "location"
    THEN IF set.side = "export"
         THEN export_offset_transforms(set.M, keys_array, FALSE, 1)
         ELSE import_offset_transforms(set.M, keys_array, FALSE, 1)
    ELSE to_euler(keys_array, set.node_rot, ref)

\* the settings the model draws for a pass
PassSettings ==
    [side : {"export", "import"}, prop : {"location"},
     M : { Matrix(Identity3, <<1, -2, 3>>),
           Matrix(<< <<0, -1, 0>>, <<1, 0, 0>>, <<0, 0, 1>> >>, <<0, 0, 0>>) },
     node_rot : {0}, linearUnit : {"m", "km"}]
    \cup
    [side : {"export", "import"}, prop : {"rotation_euler"},
     M : { Matrix(Identity3, <<0, 0, 0>>) },
     node_rot : {0, 90}, linearUnit : {"m"}]

InitPass ==
    /\ p_pc = "gather"
    /\ p_set \in { s \in PassSettings : s.side = "import" \/ s.linearUnit = "m" }
    /\ p_orig \in PassGroups(p_set.side, p_set.prop)
    /\ p_group = p_orig
    /\ p_frames = ListOfSet(FrameUpdates(p_set.side, p_orig))
    /\ p_vals = <<>>
    /\ p_keys = <<>>
    /\ p_eulRef = <<>>
    /\ p_log = <<>>
    /\ KeysIdle
    /\ HeaderIdle
    /\ CompleteIdle
    /\ SpaceIdle
    /\ DocIdle
    /\ ChannelIdle
    /\ AnimDataIdle
    /\ LoadIdle
    /\ NodesIdle
    /\ UnitsIdle
    /\ RangeIdle

\* whether the first frame loop has come to its end
AllGathered_after_first(vals, frames) == Len(vals) >= 1

AllGathered(vals, frames) == Len(vals) = Len(frames)

\* one turn of prep_node's first frame loop (lines 352-356): every curve of
\* the group is evaluated at the frame
export_gather ==
    /\ p_pc \in {"gather", "convert"}
    /\ p_set.side = "export"
    /\ Len(p_vals) < Len(p_frames)
    /\ LET fr == p_frames[Len(p_vals) + 1]
       IN  p_vals' = Append(p_vals, [c \in 1..Len(p_group) |-> fcurve_evaluate(p_group[c], fr)])
    /\ UNCHANGED <<p_pc, p_set, p_orig, p_group, p_frames, p_keys, p_eulRef, p_log>>
    /\ UNCHANGED notPass

\* one turn of the frame loop of transposeConvert_propArray_to_frameArray
\* (lines 397-418): the key object of each channel and its value
import_gather ==
    /\ p_pc \in {"gather", "convert"}
    /\ p_set.side = "import"
    /\ Len(p_vals) < Len(p_frames)
    /\ LET fr == p_frames[Len(p_vals) + 1]
           needs(c) == /\ FirstKeyAt("import", p_group[c].keys, fr) = 0
                       /\ FillNeedsLerp(get_neighbor_keys(p_group[c], fr))
           ref(c) == FrameKey(p_group[c], fr)
       IN  IF \E c \in 1..Len(p_group) : needs(c) \/ ref(c) = 0
           THEN /\ p_pc' = "AttributeError"
                /\ UNCHANGED <<p_vals, p_keys>>
           ELSE /\ p_vals' = Append(p_vals,
                      [c \in 1..Len(p_group) |->
                          GatheredValue(p_set, p_group[c].keys[ref(c)].value)])
                /\ p_keys' = Append(p_keys, [c \in 1..Len(p_group) |-> ref(c)])
                /\ UNCHANGED p_pc
    /\ UNCHANGED <<p_set, p_orig, p_group, p_frames, p_eulRef, p_log>>
    /\ UNCHANGED notPass

\* the reference taken from the first input vector once the vectors are
\* gathered (export lines 359-360; import lines 596-607: None for a location)
rotation_reference ==
    /\ p_pc = "gather"
    /\ AllGathered(p_vals, p_frames)
    /\ p_eulRef' = IF p_set.side = "import" /\ p_set.prop = "location" THEN <<>>
                   ELSE to_euler(p_vals[1], p_set.node_rot, <<>>)
    /\ p_pc' = "convert"
    /\ UNCHANGED <<p_set, p_orig, p_group, p_frames, p_vals, p_keys, p_log>>
    /\ UNCHANGED notPass

\* the key at index i given the value t_value (export lines 94-98)
OffsetPoint_value_only(k, t_value) == [k EXCEPT !.co[2] = t_value]

OffsetPoint(k, t_value) ==
    [k EXCEPT !.handle_left[2] = (@ - k.co[2]) + t_value,
              !.co[2] = t_value,
              !.handle_right[2] = (@ - k.co[2]) + t_value]

\* fc.keyframe_points.insert(frame, value): a new point, put where its time
\* belongs, with automatic handles
PointInserted(keys, frame, value) ==
    LET n == Cardinality({i \in 1..Len(keys) : keys[i].co[1] < frame})
        k == [co |-> <<frame, value>>,
              handle_left |-> <<frame - 1, value>>,
              handle_right |-> <<frame + 1, value>>,
              interpolation |-> InsertedPoint(frame, value).interpolation,
              handle_left_type |-> InsertedPoint(frame, value).handle_left_type,
              handle_right_type |-> InsertedPoint(frame, value).handle_right_type]
    IN  SubSeq(keys, 1, n) \o <<k>> \o SubSeq(keys, n + 1, Len(keys))

\* the scatter loop of export's offset_transforms for one curve (lines 87-106)
CurveScattered(fc, frame, t_value) ==
    LET at == FirstKeyAt("export", fc.keys, frame)
    IN  IF at # 0
        THEN [fc EXCEPT !.keys[at] = OffsetPoint(fc.keys[at], t_value)]
        ELSE [fc EXCEPT !.keys = PointInserted(fc.keys, frame, t_value)]

\* one turn of prep_node's second frame loop (lines 364-366): the frame is
\* converted against eulRef and written to the curves
export_offset ==
    /\ p_pc = "convert"
    /\ p_set.side = "export"
    /\ Len(p_log) < Len(p_vals)
    /\ LET j == Len(p_log) + 1
           out == Converted(p_set, p_vals[j], p_eulRef)
       IN  /\ p_group' = [c \in 1..Len(p_group) |->
                             CurveScattered(p_group[c], p_frames[j], out[c])]
           /\ p_log' = Append(p_log, [frame |-> p_frames[j], ref |-> p_eulRef, out |-> out])
    /\ UNCHANGED <<p_pc, p_set, p_orig, p_frames, p_vals, p_keys, p_eulRef>>
    /\ UNCHANGED notPass

\* one turn of write_animation's second frame loop (lines 611-615): the frame
\* is converted, the key objects of the frame take the values (lines 457-458)
\* and the Euler produced becomes eulRef
import_offset ==
    /\ p_pc = "convert"
    /\ p_set.side = "import"
    /\ Len(p_log) < Len(p_vals)
    /\ LET j == Len(p_log) + 1
           out == Converted(p_set, p_vals[j], p_eulRef)
       IN  /\ p_group' = [c \in 1..Len(p_group) |->
                             [p_group[c] EXCEPT !.keys[p_keys[j][c]].value = out[c]]]
           /\ p_log' = Append(p_log, [frame |-> p_frames[j], ref |-> p_eulRef, out |-> out])
           /\ p_eulRef' = IF p_set.prop = "location" THEN <<>> ELSE out
    /\ UNCHANGED <<p_pc, p_set, p_orig, p_frames, p_vals, p_keys>>
    /\ UNCHANGED notPass

\* fc.update() (export lines 368-372): the host recalculates the handles of
\* automatic type, taken flat here; free handles stay
HandlesRecalculated(fc) ==
    [fc EXCEPT !.keys = [i \in 1..Len(fc.keys) |->
        IF fc.keys[i].handle_left_type = "FREE" THEN fc.keys[i]
        ELSE [fc.keys[i] EXCEPT !.handle_left[2] = fc.keys[i].co[2],
                                !.handle_right[2] = fc.keys[i].co[2]]]]

\* the end of the pass: on export every curve is updated; on import nothing
\* is left to do before the key lists are built (lines 632-635)
pass_done ==
    /\ p_pc = "convert"
    /\ Len(p_log) = Len(p_frames)
    /\ p_group' = IF p_set.side = "export"
                  THEN [c \in 1..Len(p_group) |-> HandlesRecalculated(p_group[c])]
                  ELSE p_group
    /\ p_pc' = "done"
    /\ UNCHANGED <<p_set, p_orig, p_frames, p_vals, p_keys, p_eulRef, p_log>>
    /\ UNCHANGED notPass

NextPass ==
    \/ export_gather
    \/ import_gather
    \/ rotation_reference
    \/ export_offset
    \/ import_offset
    \/ pass_done

SpecPass == InitPass /\ [][NextPass]_vars

\* keys_new of lines 634-635: the key list built for channel c
keys_new(c) == [k \in 1..Len(p_keys) |-> p_group[c].keys[p_keys[k][c]]]

\* C22: on export and on import the frames of a property group, the union of
\* the times keyed on its channels, are converted one by one in
\* non-decreasing time order
C22_FramesInTimeOrder ==
    \A a, b \in 1..Len(p_log) : a < b => p_log[a].frame <= p_log[b].frame

\* C23: when a rotation group is converted to Euler, the reference used for
\* each frame after the first is the Euler produced for the frame processed
\* immediately before it, on export as well as on import
C23_ReferenceIsPreviousEuler ==
    p_set.prop = "rotation_euler" =>
        \A k \in 2..Len(p_log) : p_log[k].ref = p_log[k - 1].out

\* the input vector of a frame as the gathering loop takes it from a group
InputVector(set, group, fr) ==
    [c \in 1..Len(group) |->
        IF set.side = "export" THEN fcurve_evaluate(group[c], fr)
        ELSE GatheredValue(set, group[c].keys[FrameKey(group[c], fr)].value)]

\* C24: the input vector of every frame is gathered from the original curve
\* data, before the first key of the group is overwritten or inserted; no
\* input vector is computed from a value the pass has already written
C24_TwoPassDiscipline ==
    /\ \A j \in 1..Len(p_vals) : p_vals[j] = InputVector(p_set, p_orig, p_frames[j])
    /\ Len(p_log) > 0 => Len(p_vals) = Len(p_frames)

\* a pass has ended whose writes changed what the gathering loop would read
\* for one of its frames, on export and on import
C24_Witness ==
    /\ p_pc = "done"
    /\ Len(p_frames) = 3
    /\ p_group # p_orig
    /\ \E j \in 1..Len(p_frames) :
          InputVector(p_set, p_group, p_frames[j]) # p_vals[j]

\* the first key of channel c at the frame of log entry k carries the value
\* converted for that frame
ExportKeyHoldsValue(c, k) ==
    LET at == FirstKeyAt("export", p_group[c].keys, p_log[k].frame)
    IN  at # 0 /\ p_group[c].keys[at].co[2] = p_log[k].out[c]

\* the key list built for channel c has one entry per frame, each entry at
\* its frame's time with its frame's value, and no key object twice
ImportKeysPerFrame(c) ==
    /\ Len(keys_new(c)) = Len(p_frames)
    /\ \A k \in 1..Len(p_frames) :
          /\ keys_new(c)[k].time = p_frames[k]
          /\ keys_new(c)[k].value = p_log[k].out[c]
    /\ \A k, h \in 1..Len(p_frames) : k # h => p_keys[k][c] # p_keys[h][c]

\* C25: after a conversion pass over a full group every channel holds, for
\* each time t of the union of the group's keyed times, a key at t whose
\* value is the component converted for t, one being created where the
\* channel had none; on import the key list built for each channel has one
\* entry per union frame, each with its frame's time, and entries of different
\* frames are different keys holding their own frame's value
C25_KeyAtEveryFrame ==
    /\ p_pc # "AttributeError"
    /\ p_pc = "done" =>
          \A c \in 1..Len(p_group) :
              IF p_set.side = "export"
              THEN \A k \in 1..Len(p_log) : ExportKeyHoldsValue(c, k)
              ELSE ImportKeysPerFrame(c)

-----------------------------------------------------------------------------
(* C27: the time of the key of a channel made by the completion *)

\* the union of the key times of the channels present
GroupFrames ==
    IF c_side = "import" THEN ImportFrames(GivenGroup) ELSE ExportFrames(GivenGroup)

\* the earliest keyed time of the group
EarliestFrame == CHOOSE f \in GroupFrames : \A g \in GroupFrames : f <= g

\* the channels of the result that the completion made
Synthesized == {p \in 1..Len(c_result) : c_result[p].id = -1}

SynthesizedTime(p) ==
    IF c_side = "import" THEN c_result[p].keys[1].time ELSE c_result[p].keys[1].co[1]

SynthesizedValue(p) ==
    IF c_side = "import" THEN c_result[p].keys[1].value ELSE c_result[p].keys[1].co[2]

\* a location group with only X present, keyed at 0 and 10
OnlyXAtZeroAndTen ==
    /\ c_prop = 0
    /\ Len(c_group) = 1
    /\ c_group[1].array_index = 0
    /\ GroupFrames = {0, 10}

\* C27: the single key of a channel synthesized by completion is placed at
\* the earliest keyed time of the group, the minimum of the union of the key
\* times of the present channels, on export and on import; for X keyed at 0
\* and 10 the synthesized Y and Z keys are at time 0 with value 0
C27_SynthesizedAtEarliest ==
    c_pc \in {"completed", "again"} =>
        /\ \A p \in Synthesized : SynthesizedTime(p) = EarliestFrame
        /\ OnlyXAtZeroAndTen =>
              /\ Synthesized = {2, 3}
              /\ \A p \in Synthesized : SynthesizedTime(p) = 0 /\ SynthesizedValue(p) = 0

-----------------------------------------------------------------------------
(* C28: the angle and the magnitude written for a fixed tangent *)

\* the angle and magnitude tokens of the in- and of the out-tangent of the
\* line written, <<>> for a tangent that is not fixed
InPairWritten ==
    IF keyLine[3] = W("fixed") THEN <<keyLine[8], keyLine[9]>> ELSE <<>>

OutPairWritten ==
    IF keyLine[4] # W("fixed") THEN <<>>
    ELSE IF keyLine[3] = W("fixed") THEN <<keyLine[10], keyLine[11]>>
    ELSE <<keyLine[8], keyLine[9]>>

\* what the claim asks of the pair written for a handle of the key
FixedPairAsClaimed(pair, handle) ==
    LET dtime  == handle[1] - kp.co[1]
        dvalue == handle[2] - kp.co[2]
    IN  pair # <<>> =>
          /\ (dtime = 0 /\ dvalue > 0) => pair[1] = F(90 * Micro)
          /\ (dtime = 0 /\ dvalue < 0) => pair[1] = F(-90 * Micro)
          /\ dtime = 0 => pair[2] = F(Round6(Abs(dvalue)))
          /\ (dtime # 0 /\ Abs(AtanConverted(k_set, -dtime, -dvalue)) < 1000)
                => pair[1] = I(0)

\* C28: for a fixed tangent whose handle lies at the time of its key the
\* written angle is +90 when the handle's value is greater than the key's and
\* -90 when it is smaller, the delta being measured from the key to the
\* handle; the written magnitude is the absolute value difference; for a
\* non-zero delta-time an angle strictly within 0.001 of zero is written as 0
C28_FixedTangentAngle ==
    ExportedLineWritten =>
        /\ FixedPairAsClaimed(InPairWritten, handle_left(kp))
        /\ FixedPairAsClaimed(OutPairWritten, handle_right(kp))

\* ---------------------------------------------------------------------------
\* Scene unit changes and exports (SpecUnits).  anim_utils builds
\* linear_converter and angular_converter once, when the module is executed:
\* at the first run of an operator (the operators import export_anim and
\* import_anim inside execute) and again when the add-on is reloaded.  Each
\* export names the units of the scene as it is at that export.
\* ---------------------------------------------------------------------------
MaxExports == 2

\* scene.unit_settings as the model draws them
UnitScenes ==
    [length_unit : {"METERS", "CENTIMETERS", "MILES"},
     system_rotation : AngularUnits]

\* the module body of anim_utils can be executed: UNITS has the scene's length
\* unit (units_convertor raises KeyError otherwise)
anim_utils_loads(sc) == sc.length_unit \in UnitNames

\* the keyframe point the exports write: value 0.00001, left handle at slope 1
UnitPoint ==
    [co |-> <<One, 100>>, interpolation |-> "BEZIER", handle_left_type |-> "FREE",
     handle_right_type |-> "FREE", dl |-> <<One, One>>, dr |-> <<-One, -One>>]

\* the settings of a curve of unit type dt under the units u
UnitSettings(u, dt) ==
    [use_time_range |-> FALSE, start_time |-> 0, end_time |-> 0, dt_output |-> dt,
     length_unit |-> u.length_unit, system_rotation |-> u.system_rotation]

\* what write_keyframes writes under the converters built from the units u:
\* the value of a linear key, the value of an angular key, a fixed in-tangent
KeysWritten(u) ==
    [linear  |-> KeyValueToken(UnitSettings(u, "linear"), UnitPoint),
     angular |-> KeyValueToken(UnitSettings(u, "angular"), UnitPoint),
     tangent |-> tangent_calc(UnitSettings(u, "linear"), UnitPoint, handle_left(UnitPoint))]

\* one export: anim_header_elements names the scene's units, the keys go
\* through the module-level converters
ExportWritten(sc, conv) ==
    [linearUnit  |-> ANIM_LINEAR_UNITS(sc.length_unit),
     angularUnit |-> ANIM_ANGULAR_UNITS(sc.system_rotation),
     keys        |-> KeysWritten(conv)]

InitUnits ==
    /\ u_pc = "idle"
    /\ u_scene \in UnitScenes
    /\ u_conv = <<>>
    /\ u_exports = <<>>
    /\ KeysIdle
    /\ HeaderIdle
    /\ CompleteIdle
    /\ SpaceIdle
    /\ DocIdle
    /\ ChannelIdle
    /\ AnimDataIdle
    /\ LoadIdle
    /\ NodesIdle
    /\ PassIdle
    /\ RangeIdle

\* the user changes the scene's unit settings
scene_units_changed ==
    /\ \E s \in UnitScenes : s # u_scene /\ u_scene' = s
    /\ UNCHANGED <<u_pc, u_conv, u_exports>>
    /\ UNCHANGED notUnits

\* ImportANIM.execute: "from . import import_anim" executes anim_utils when it
\* is not loaded yet
import_run ==
    /\ u_conv = <<>>
    /\ IF anim_utils_loads(u_scene)
       THEN u_conv' = u_scene /\ u_pc' = "ok"
       ELSE u_conv' = u_conv /\ u_pc' = "KeyError"
    /\ UNCHANGED <<u_scene, u_exports>>
    /\ UNCHANGED notUnits

\* ExportANIM.execute: "from . import export_anim" executes anim_utils when it
\* is not loaded yet, then export_anim.save writes the file
export_run ==
    /\ Len(u_exports) < MaxExports
    /\ LET conv == IF u_conv = <<>> THEN u_scene ELSE u_conv
       IN  IF u_conv = <<>> /\ ~anim_utils_loads(u_scene)
           THEN /\ u_pc' = "KeyError"
                /\ UNCHANGED <<u_conv, u_exports>>
           ELSE /\ u_pc' = "ok"
                /\ u_conv' = conv
                /\ u_exports' = Append(u_exports, ExportWritten(u_scene, conv))
    /\ UNCHANGED u_scene
    /\ UNCHANGED notUnits

\* the add-on is reloaded: __init__ reloads export_anim and import_anim, which
\* reload anim_utils; a KeyError leaves the converters as they were
addon_reload ==
    /\ u_conv # <<>>
    /\ IF anim_utils_loads(u_scene)
       THEN u_conv' = u_scene /\ u_pc' = "ok"
       ELSE u_conv' = u_conv /\ u_pc' = "KeyError"
    /\ UNCHANGED <<u_scene, u_exports>>
    /\ UNCHANGED notUnits

NextUnits ==
    \/ scene_units_changed
    \/ import_run
    \/ export_run
    \/ addon_reload

SpecUnits == InitUnits /\ [][NextUnits]_vars

\* the keys of export e are converted with the factors of the units e's
\* header names
HeaderUnitsApplied(e) ==
    /\ B3D_LINEAR_UNITS(e.linearUnit) \in UnitNames
    /\ e.keys = KeysWritten([length_unit |-> B3D_LINEAR_UNITS(e.linearUnit),
                             system_rotation |-> B3D_ANGULAR_UNITS(e.angularUnit)])

\* C29: in every sequence of scene unit changes and exports, the linearUnit and
\* angularUnit named in the header of an export are the units that export used
\* to convert its linear values, angular values and tangent angles
C29_HeaderUnitsAreConvertedUnits ==
    \A i \in 1..Len(u_exports) : HeaderUnitsApplied(u_exports[i])

\* ---------------------------------------------------------------------------
\* The export operator's time range (SpecRange).  start_time and end_time are
\* IntProperty(min=0) with update callbacks.  The host stores an assigned
\* value clamped to the property's range and then runs the property's update
\* callback, also when the assignment is made by the other callback; a value
\* outside the C int range is refused with ValueError.
\* ---------------------------------------------------------------------------
INT_MAX == 2147483647

\* the values an edit enters
EditValues == {-1, 0, 1, 29, 30, 31, INT_MAX - 1, INT_MAX}

\* IntProperty(min=0): the value the host stores
ClampMin0(v) == IF v < 0 THEN 0 ELSE v

\* the operator as registered: use_time_range False, start_time 0, end_time 30
OperatorDefaults ==
    [use_time_range |-> FALSE, start_time |-> 0, end_time |-> 30, err |-> ""]

RECURSIVE set_start_time(_, _)
RECURSIVE set_end_time(_, _)

\* ExportANIM.upd_end, run after end_time was assigned
upd_end(o) ==
    IF o.start_time >= o.end_time
    THEN set_start_time(o, o.end_time - 1)
    ELSE o

\* ExportANIM.upd_start, run after start_time was assigned; start_time + 1
\* beyond INT_MAX is refused and end_time stays
upd_start(o) ==
    IF o.end_time <= o.start_time
    THEN IF o.start_time = INT_MAX
         THEN [o EXCEPT !.err = "ValueError"]
         ELSE set_end_time(o, o.start_time + 1)
    ELSE o

\* an assignment to start_time: clamp, then update=upd_start
set_start_time(o, v) == upd_start([o EXCEPT !.start_time = ClampMin0(v)])

\* an assignment to end_time: clamp, then update=upd_end
set_end_time(o, v) == upd_end([o EXCEPT !.end_time = ClampMin0(v)])

RangeScenes ==
    {[frame_start |-> 1, frame_end |-> 250], [frame_start |-> 5, frame_end |-> 5]}

InitRange ==
    /\ r_pc = "idle"
    /\ r_op = OperatorDefaults
    /\ r_scene \in RangeScenes
    /\ r_header = <<>>
    /\ KeysIdle
    /\ HeaderIdle
    /\ CompleteIdle
    /\ SpaceIdle
    /\ DocIdle
    /\ ChannelIdle
    /\ AnimDataIdle
    /\ LoadIdle
    /\ NodesIdle
    /\ PassIdle
    /\ UnitsIdle

\* the user edits Start: the host stores the value and runs upd_start
edit_start_time ==
    \E v \in EditValues :
        LET o == set_start_time(r_op, v)
        IN  /\ r_op' = [o EXCEPT !.err = ""]
            /\ r_pc' = IF o.err = "" THEN "ok" ELSE o.err
            /\ UNCHANGED <<r_scene, r_header>>
            /\ UNCHANGED notRange

\* the user edits End: the host stores the value and runs upd_end
edit_end_time ==
    \E v \in EditValues :
        LET o == set_end_time(r_op, v)
        IN  /\ r_op' = [o EXCEPT !.err = ""]
            /\ r_pc' = IF o.err = "" THEN "ok" ELSE o.err
            /\ UNCHANGED <<r_scene, r_header>>
            /\ UNCHANGED notRange

\* the user switches Use Time Range
edit_use_time_range ==
    /\ r_op' = [r_op EXCEPT !.use_time_range = ~@]
    /\ UNCHANGED <<r_pc, r_scene, r_header>>
    /\ UNCHANGED notRange

\* an export: anim_header_elements writes startTime and endTime, from the
\* operator when use_time_range is set, else from the scene
header_written ==
    /\ r_header' = <<r_op.use_time_range,
                     HeaderStart(r_scene, r_op), HeaderEnd(r_scene, r_op)>>
    /\ r_header' # r_header
    /\ UNCHANGED <<r_pc, r_op, r_scene>>
    /\ UNCHANGED notRange

NextRange ==
    \/ edit_start_time
    \/ edit_end_time
    \/ edit_use_time_range
    \/ header_written

SpecRange == InitRange /\ [][NextRange]_vars

\* C30: after any sequence of edits of start_time and end_time, each followed
\* by its update callback and the minimum-0 clamp, start_time < end_time holds,
\* and a header written with the custom time range has startTime <= endTime
C30_StartBeforeEnd ==
    /\ r_op # <<>> => r_op.start_time < r_op.end_time
    /\ (r_header # <<>> /\ r_header[1]) => r_header[2] <= r_header[3]
=============================================================================
